---- MODULE Spec2Model ----
(***************************************************************************)
(* Model of the terminal tool server of mcp-agent-os                       *)
(* (servers/terminal-server/src/terminalTools.ts): the sandbox path        *)
(* resolver, the allowlist / argument guard / danger classifier and the    *)
(* two-stage confirmation store, with the processes the server spawns and  *)
(* the audit log it appends to; of its file tools (read_file, write_file,  *)
(* diff); of its handlers when requests overlap at their awaits; of        *)
(* spawnAndCapture; of its start (index.ts, main) with the policy loader;  *)
(* and of the chatbot of the client (client/src/config.ts,                 *)
(* handleUserMessage, parseAction) with the slash commands of the router   *)
(* and the readline handler (client/src/ollama.ts) that starts its turns.  *)
(*                                                                         *)
(* Strings the code inspects character by character (command names,        *)
(* arguments, paths) are sequences of one-character strings, so that the   *)
(* regular expressions, startsWith / includes tests and the path           *)
(* normalisation are computed, not assumed.  Paths follow node's POSIX     *)
(* `path` module.                                                          *)
(***************************************************************************)
EXTENDS Integers, Sequences, FiniteSets, TLC

VARIABLES
    pending,    \* ctx.pending: Map<token, PendingConfirmation>
    nextToken,  \* crypto.randomUUID(): the next fresh token value
    now,        \* Date.now(), in milliseconds
    lineage,    \* history: pending token -> the call that issued its stage-1
                \* token and the payload that call captured
    consumed,   \* history: tokens a confirm call has advanced or executed
    last,       \* the request served by the latest step: its response, the process
                \* it spawned and the line it appended to the audit log
    pathIn,     \* path resolver harness: the (root, userPath) under test
    pathOut,    \* path resolver harness: the outcome of resolveSandboxPath
    stdoutText, \* spawnAndCapture: its variable out, the captured stdout
    stderrText, \* spawnAndCapture: its variable err, the captured stderr
    output,     \* spawnAndCapture: the output it resolves with once the child closed
    awaitingSshWizardInput, \* createChatbot: its flag of the same name
    seenToolCalls,          \* handleUserMessage: the call keys of the current turn
    turn,       \* handleUserMessage: the user turn in progress and what its latest
                \* step did
    disk,       \* the file system: the regular files with their content, and the directories
    fileLast,   \* the file request served by the latest step and its response
    parse,      \* action parser harness: the action under test, the text rendered
                \* for it and the outcome of parseAction
    calls,      \* overlapping requests: the calls begun so far, each with the point
                \* where its handler is suspended and what it found in the store
    history,    \* createChatbot: its array of the same name; each message carries
                \* the turn and the pass of the loop that pushed it
    turns,      \* overlapping turns: the calls of handleUserMessage begun so far,
                \* each with the await where it is suspended
    boot        \* start of the server: the policy file, how far main() has come
                \* and what createTerminalContext returned

vars == <<pending, nextToken, now, lineage, consumed, last, pathIn, pathOut, stdoutText, stderrText, output,
          awaitingSshWizardInput, seenToolCalls, turn, history, turns, disk, fileLast, parse, calls,
          boot>>

serverVars == <<pending, nextToken, now, lineage, consumed, last>>

pathVars == <<pathIn, pathOut>>

captureVars == <<stdoutText, stderrText, output>>

agentVars == <<awaitingSshWizardInput, seenToolCalls, turn, history, turns>>

fileVars == <<disk, fileLast>>

\* the file tools, the parser harness, the overlapping requests and the start
restVars == <<fileVars, parse, calls, boot>>

\* the variables the tool handlers of the confirmation flow do not touch
harnessVars == <<pathVars, captureVars, agentVars, restVars>>

(***************************************************************************)
(* Bounds of the model.                                                    *)
(***************************************************************************)
MaxTokens == 2
MaxTicks == 2
MaxPathLen == 4
MaxChunkLen == 2
MaxFileLen == 5
MaxTextLen == 3
MaxCalls == 5

(***************************************************************************)
(* Strings as character sequences.                                         *)
(***************************************************************************)
Lower == {"a","b","c","d","e","f","g","h","i","j","k","l","m",
          "n","o","p","q","r","s","t","u","v","w","x","y","z"}

Upper == {"A","B","C","D","E","F","G","H","I","J","K","L","M",
          "N","O","P","Q","R","S","T","U","V","W","X","Y","Z"}

Digit == {"0","1","2","3","4","5","6","7","8","9"}

EmptyStr == <<>>

\* s.startsWith(p)
StartsWith(s, p) ==
    /\ Len(p) <= Len(s)
    /\ \A i \in 1..Len(p) : s[i] = p[i]

\* s.includes(p)
Includes(s, p) ==
    \E k \in 0..(Len(s) - Len(p)) : \A i \in 1..Len(p) : s[k + i] = p[i]

DotDot == <<".", ".">>

Slash == <<"/">>

\* /^[a-zA-Z0-9._-]+$/.test(cmd)
isSafeCommandName(cmd) ==
    /\ Len(cmd) >= 1
    /\ \A i \in 1..Len(cmd) : cmd[i] \in Lower \cup Upper \cup Digit \cup {".", "_", "-"}

(***************************************************************************)
(* node:path (POSIX).  A path string is split at "/" into segments;        *)
(* normalisation drops empty and "." segments and lets ".." remove the     *)
(* segment before it, never climbing above the root of an absolute path.   *)
(***************************************************************************)
isAbsolute(p) == Len(p) > 0 /\ p[1] = "/"

RECURSIVE SplitFrom(_, _, _)
\* the segments of p from position i on, cur being the segment read so far
SplitFrom(p, i, cur) ==
    IF i > Len(p) THEN <<cur>>
    ELSE IF p[i] = "/" THEN <<cur>> \o SplitFrom(p, i + 1, EmptyStr)
    ELSE SplitFrom(p, i + 1, Append(cur, p[i]))

Split(p) == SplitFrom(p, 1, EmptyStr)

RECURSIVE NormFrom(_, _, _)
\* normalizeString(path, allowAboveRoot = false) on the segments
NormFrom(segs, i, acc) ==
    IF i > Len(segs) THEN acc
    ELSE IF segs[i] = EmptyStr \/ segs[i] = <<".">> THEN NormFrom(segs, i + 1, acc)
    ELSE IF segs[i] = DotDot
         THEN NormFrom(segs, i + 1, IF Len(acc) = 0 THEN acc ELSE SubSeq(acc, 1, Len(acc) - 1))
    ELSE NormFrom(segs, i + 1, Append(acc, segs[i]))

Normalize(segs) == NormFrom(segs, 1, <<>>)

RECURSIVE JoinFrom(_, _)
\* segs.slice(i).join("/")
JoinFrom(segs, i) ==
    IF i > Len(segs) THEN EmptyStr
    ELSE IF i = Len(segs) THEN segs[i]
    ELSE segs[i] \o Slash \o JoinFrom(segs, i + 1)

Join(segs) == JoinFrom(segs, 1)

\* the absolute path string of normalized segments
AbsString(segs) == Slash \o Join(segs)

\* path.resolve(base, p), base an absolute path
resolve(base, p) ==
    IF isAbsolute(p) THEN AbsString(Normalize(Split(p)))
    ELSE AbsString(Normalize(Split(base) \o Split(p)))

RECURSIVE CommonFrom(_, _, _)
\* the number of leading segments a and b share, counting from position i
CommonFrom(a, b, i) ==
    IF i > Len(a) \/ i > Len(b) \/ a[i] # b[i] THEN i - 1
    ELSE CommonFrom(a, b, i + 1)

\* path.relative(from, to), both absolute
relative(from, to) ==
    LET f == Normalize(Split(from))
        t == Normalize(Split(to))
        c == CommonFrom(f, t, 1)
        ups == [i \in 1..(Len(f) - c) |-> DotDot]
    IN  Join(ups \o SubSeq(t, c + 1, Len(t)))

\* the test of resolveSandboxPath and checkArgsAgainstPolicy on a relative path
EscapesByPrefix(rel) == StartsWith(rel, DotDot) \/ isAbsolute(rel)

PathEscape == <<"PathEscape">>

\* resolveSandboxPath returning the resolved path without its test
resolveSandboxPathNoCheck(root, userPath) ==
    IF isAbsolute(userPath) THEN resolve(Slash, userPath) ELSE resolve(root, userPath)

\* resolveSandboxPath(ctx, userPath): the resolved path, or PathEscape when it throws
resolveSandboxPath(root, userPath) ==
    LET abs == IF isAbsolute(userPath) THEN resolve(Slash, userPath) ELSE resolve(root, userPath)
        rel == relative(root, abs)
    IN  IF EscapesByPrefix(rel) THEN PathEscape ELSE abs

(***************************************************************************)
(* The deployment: the policy file, the sandbox root and the home          *)
(* directory.  The policy is an input of the server; this one exercises    *)
(* every rule: "rm" is dangerous by name, "git" by its "push" argument     *)
(* and by a pattern, "a/b" is allowlisted although no safe command name    *)
(* (loadTerminalPolicy does not validate the names), "sh" is not           *)
(* allowlisted.  The blocked patterns are the literal ";", for which       *)
(* RegExp(p).test(a) is a.includes(p), and "^$", which matches the empty   *)
(* argument only.                                                          *)
(***************************************************************************)
cmdLs == <<"l", "s">>

cmdRm == <<"r", "m">>

cmdGit == <<"g", "i", "t">>

cmdSh == <<"s", "h">>

cmdSlash == <<"a", "/", "b">>

cmdSshKeygen == <<"s", "s", "h", "-", "k", "e", "y", "g", "e", "n">>

argPush == <<"p", "u", "s", "h">>

argForce == <<"-", "f">>

argX == <<"x">>

argSemi == <<"x", ";", "y">>

argUp == <<".", ".", "/", "x">>

argEtc == <<"/", "e", "t", "c">>

argInside == <<"/", "s", "/", "x">>

sandboxRootAbs == <<"/", "s">>

homedir == <<"/", "h">>

allowedCommands == {cmdLs, cmdRm, cmdGit, cmdSlash}

blockedArgsRegex == << <<";">>, <<"^", "$">> >>

dangerousCommands == {cmdRm}

dangerousPatterns ==
    << [command |-> cmdGit, argsAnyOf |-> {argPush}, argsRegexAnyOf |-> << <<"-", "f">> >>] >>

\* policy.confirmTtlSeconds ?? 90
confirmTtlSeconds == 90

ttlMs == confirmTtlSeconds * 1000

\* new RegExp(reStr).test(a) for a literal pattern and for ^$
RegexTest(reStr, a) == IF reStr = <<"^", "$">> THEN a = EmptyStr ELSE Includes(a, reStr)

(***************************************************************************)
(* Danger Classifier and Argument Guard.                                   *)
(***************************************************************************)
NoReason == [kind |-> "none", command |-> EmptyStr, detail |-> <<>>]

RECURSIVE RuleRegexFrom(_, _, _, _)
\* the first argsRegexAnyOf pattern of a rule that matches an argument, from index i
RuleRegexFrom(rule, command, args, i) ==
    IF i > Len(rule.argsRegexAnyOf) THEN NoReason
    ELSE IF \E k \in 1..Len(args) : RegexTest(rule.argsRegexAnyOf[i], args[k])
         THEN [kind |-> "argsRegexAnyOf", command |-> command, detail |-> <<rule.argsRegexAnyOf[i]>>]
    ELSE RuleRegexFrom(rule, command, args, i + 1)

RECURSIVE RulesFrom(_, _, _)
\* the loop over policy.dangerousPatterns, from rule i
RulesFrom(command, args, i) ==
    IF i > Len(dangerousPatterns) THEN NoReason
    ELSE LET rule == dangerousPatterns[i] IN
         IF rule.command # command THEN RulesFrom(command, args, i + 1)
         ELSE IF \E a \in rule.argsAnyOf : \E k \in 1..Len(args) : args[k] = a
              THEN [kind |-> "argsAnyOf", command |-> command, detail |-> <<>>]
         ELSE IF RuleRegexFrom(rule, command, args, 1) # NoReason
              THEN RuleRegexFrom(rule, command, args, 1)
         ELSE RulesFrom(command, args, i + 1)

\* isDangerous(ctx, command, args): the reason, NoReason for null
isDangerous(command, args) ==
    IF command \in dangerousCommands
    THEN [kind |-> "dangerousCommand", command |-> command, detail |-> <<>>]
    ELSE RulesFrom(command, args, 1)

\* the error checkArgsAgainstPolicy throws, "" when it returns; for each
\* pattern, bad = args.find(a => re.test(a)) and the throw is under if (bad),
\* which an empty string does not pass
checkArgsAgainstPolicy(args) ==
    IF \E r \in 1..Len(blockedArgsRegex) :
          LET found == {k \in 1..Len(args) : RegexTest(blockedArgsRegex[r], args[k])}
          IN  found # {} /\ args[CHOOSE k \in found : \A m \in found : k <= m] # EmptyStr
    THEN "BlockedArgument"
    ELSE LET bad == {k \in 1..Len(args) :
                        \/ Includes(args[k], DotDot)
                        \/ /\ StartsWith(args[k], Slash)
                           /\ EscapesByPrefix(relative(sandboxRootAbs, resolve(Slash, args[k])))}
         IN  IF bad = {} THEN ""
             ELSE LET k == CHOOSE j \in bad : \A m \in bad : j <= m
                  IN  IF Includes(args[k], DotDot) THEN "DotDotArgument" ELSE "AbsoluteArgumentOutside"

(***************************************************************************)
(* Requests, responses, audit lines and spawned processes.                 *)
(***************************************************************************)
NoToken == 0

NoExit == -1

\* one line of the audit log (ts omitted); fields an event does not carry are blank
AuditEntry(event, token, token2, command, args, cwd, reason, exitCode, existed) ==
    [event |-> event, token |-> token, token2 |-> token2, command |-> command, args |-> args,
     cwd |-> cwd, reason |-> reason, exitCode |-> exitCode, existed |-> existed,
     keyType |-> EmptyStr, keyPath |-> EmptyStr, overwrite |-> FALSE]

\* no line appended
NoAudit == AuditEntry("none", NoToken, NoToken, EmptyStr, <<>>, EmptyStr, NoReason, NoExit, FALSE)

\* one call of spawn(command, args, {cwd, shell: false}); started = FALSE when it
\* emitted 'error' (ENOENT, EACCES) instead of running
SpawnEntry(command, args, cwd, started) ==
    [called |-> TRUE, command |-> command, args |-> args, cwd |-> cwd, started |-> started]

NoSpawn == [called |-> FALSE, command |-> EmptyStr, args |-> <<>>, cwd |-> EmptyStr, started |-> FALSE]

\* history: what the call that issued a stage-1 token captured, and the
\* Date.now() it read
Issued(origin, via, command, args, cwdAbs, reason) ==
    [origin |-> origin, via |-> via, command |-> command, args |-> args, cwd |-> cwdAbs,
     reason |-> reason, at |-> IF via = "none" THEN 0 ELSE now]

NoIssue == Issued(NoToken, "none", EmptyStr, <<>>, EmptyStr, NoReason)

\* new Date(ms).toISOString() for ms >= 0, by its fields: the days since the
\* epoch and the hour, minute, second and millisecond of the day
toISOString(ms) ==
    [day |-> ms \div 86400000, hour |-> (ms \div 3600000) % 24, minute |-> (ms \div 60000) % 60,
     second |-> (ms \div 1000) % 60, millisecond |-> ms % 1000]

\* requiresConfirmation: { token, reason, expiresAt } of a pending record
Envelope(p) == [token |-> p.token, reason |-> p.reason, expiresAt |-> toISOString(p.expiresAtMs)]

\* a result without requiresConfirmation
NoEnvelope == [token |-> NoToken, reason |-> NoReason, expiresAt |-> toISOString(0)]

\* a request that names no command (confirm, cancel, generate_ssh_key)
NoRun == [command |-> EmptyStr, args |-> <<>>, cwd |-> EmptyStr]

\* The request served by a step and what the handler did: the tool, the
\* command, args and cwd (run) or the token (confirm, cancel) the request
\* names, the error thrown ("" for none), the stage of the record the token
\* named (0 for none), the token the handler stored (the response carries it
\* when ok), the structured requiresConfirmation flag of the response, the
\* spawn call made and the audit line appended; issued is the history of the
\* pending record a confirm found; key is the file name and the overwrite flag
\* a generate_ssh_key request gives, with what stat finds in ~/.ssh;
\* envelope is the rest of structuredContent ({token, reason, expiresAt}).
\* op = "none" while time passes.
Resp(op, req, token, err, stage, newToken, spawn) ==
    [op |-> op, command |-> req.command, args |-> req.args, cwd |-> req.cwd, token |-> token,
     ok |-> (err = ""), err |-> err, stage |-> stage, newToken |-> newToken,
     requiresConfirmation |-> (err = "" /\ op \in {"run", "generate_ssh_key"} /\ newToken # NoToken),
     spawn |-> spawn, audit |-> NoAudit, issued |-> NoIssue,
     key |-> [filename |-> EmptyStr, overwrite |-> FALSE, exists |-> FALSE],
     envelope |-> NoEnvelope]

Idle == Resp("none", NoRun, NoToken, "", 0, NoToken, NoSpawn)

\* createPendingConfirmation storing a record that is ready to execute
createPendingConfirmationStage2(token, command, args, cwdAbs, reason) ==
    [token |-> token, stage |-> 2, createdAtMs |-> now, expiresAtMs |-> now + ttlMs,
     command |-> command, args |-> args, cwd |-> cwdAbs, reason |-> reason]

\* the record createPendingConfirmation stores
createPendingConfirmation(token, command, args, cwdAbs, reason) ==
    [token |-> token, stage |-> 1, createdAtMs |-> now, expiresAtMs |-> now + ttlMs,
     command |-> command, args |-> args, cwd |-> cwdAbs, reason |-> reason]

\* toolConfirm advancing a record without its arguments
Stage2RecordNoArgs(token2, p) ==
    [token |-> token2, stage |-> 2, createdAtMs |-> now, expiresAtMs |-> now + ttlMs,
     command |-> p.command, args |-> <<>>, cwd |-> p.cwd, reason |-> p.reason]

\* the record toolConfirm stores when it advances the stage-1 record p
Stage2Record(token2, p) ==
    [token |-> token2, stage |-> 2, createdAtMs |-> now, expiresAtMs |-> now + ttlMs,
     command |-> p.command, args |-> p.args, cwd |-> p.cwd, reason |-> p.reason]

\* ctx.pending.set(token, record)
MapSet(m, k, v) == [x \in DOMAIN m \cup {k} |-> IF x = k THEN v ELSE m[x]]

\* ctx.pending.delete(token)
MapDelete(m, k) == [x \in DOMAIN m \ {k} |-> m[x]]

\* the exit codes a child closes with
ExitCodes == {0, 1}

\* history of the store after a step: a record that stays keeps its history, a
\* record the step stored gets the history given
Track(issued) == [t \in DOMAIN pending' |-> IF t \in DOMAIN lineage THEN lineage[t] ELSE issued]

\* toolConfirm without its expiry test
IsExpiredNever(p) == FALSE

\* Date.now() > pending.expiresAtMs
IsExpired(p) == now > p.expiresAtMs

\* toolConfirm throwing on an expired record without deleting it
DropExpiredKeeps(m, token) == m

\* toolConfirm on an expired record: ctx.pending.delete(token) before it throws
DropExpired(m, token) == MapDelete(m, token)

\* toolConfirm storing the stage-2 record without deleting the stage-1 record
AdvanceStage1Keeps(m, token, token2, p) == MapSet(m, token2, Stage2Record(token2, p))

\* toolConfirm on a stage-1 record: ctx.pending.delete(token), then
\* ctx.pending.set(token2, pending2)
AdvanceStage1(m, token, token2, p) == MapSet(MapDelete(m, token), token2, Stage2Record(token2, p))

\* toolConfirm spawning without deleting the stage-2 record
ConsumeStage2Keeps(m, token) == m

\* toolConfirm on a stage-2 record: ctx.pending.delete(token) before the spawn
ConsumeStage2(m, token) == MapDelete(m, token)

\* await appendAudit(ctx, entry): the line is appended, or appendFile throws and
\* the handler ends with that error; resp is the response of the handler when
\* the append succeeds
\* appendAudit returning without writing the line
AppendAuditDrops(entry, resp) == last' = resp

AppendAudit(entry, resp) ==
    \/ last' = [resp EXCEPT !.audit = entry]
    \/ last' = [resp EXCEPT !.ok = FALSE, !.err = "AuditFailure", !.requiresConfirmation = FALSE,
                            !.envelope = NoEnvelope]

\* spawnAndCapture(command, args, cwd): the child runs and closes with an exit
\* code, after which the handler appends its audit line, or spawn emits 'error'
\* and the handler ends with that error
SpawnAndAudit(command, args, cwd, token, event, reason, resp) ==
    \/ \E exitCode \in ExitCodes :
          AppendAudit(AuditEntry(event, token, NoToken, command, args, cwd, reason, exitCode, FALSE),
                      [resp EXCEPT !.spawn = SpawnEntry(command, args, cwd, TRUE)])
    \/ last' = [resp EXCEPT !.ok = FALSE, !.err = "SpawnFailure",
                             !.spawn = SpawnEntry(command, args, cwd, FALSE)]

(***************************************************************************)
(* The chatbot: actions of the model, tool calls, and the turn in          *)
(* progress.  `turn` keeps what the claims need of the history: the        *)
(* messages the latest step pushed, the tool call it made, and the sets of *)
(* calls made and of actions emitted earlier in the turn.                  *)
(***************************************************************************)
\* an Action of type "tool" (parseAction); args is the list of the object's
\* properties in insertion order, each <<key, value>>
ToolAction(server, tool, args) ==
    [type |-> "tool", server |-> server, tool |-> tool, args |-> args]

FinalAction == [type |-> "final", server |-> <<>>, tool |-> <<>>, args |-> <<>>]

NoAction == [type |-> "none", server |-> <<>>, tool |-> <<>>, args |-> <<>>]

\* server.client.callTool({name, arguments}), and who made the call
ToolCall(server, tool, args, by) ==
    [server |-> server, tool |-> tool, args |-> args, by |-> by]

NoCall == ToolCall(<<>>, <<>>, <<>>, "none")

\* ChatMsg
Msg(role, kind) == [role |-> role, kind |-> kind]

\* the result of callTool as the client reads it: the text of its content
\* blocks ("output" stands for a text that names no token) and its
\* structuredContent
ToolResponse(toolOutcome) ==
    [content |-> "output",
     structuredContent |->
         [requiresConfirmation |-> toolOutcome = "confirmation",
          token |-> IF toolOutcome = "confirmation" THEN <<"t">> ELSE <<>>]]

\* no tool has answered
NoResponse == [content |-> "none", structuredContent |-> [requiresConfirmation |-> FALSE, token |-> <<>>]]

NoConfirmation == [token |-> <<>>]

extractConfirmationNever(resp) == NoConfirmation

\* extractConfirmation: null unless structuredContent.requiresConfirmation
\* is true and the token is a non-empty string
extractConfirmation(resp) ==
    IF ~resp.structuredContent.requiresConfirmation
    THEN NoConfirmation
    ELSE IF resp.structuredContent.token = <<>>
    THEN NoConfirmation
    ELSE [token |-> resp.structuredContent.token]

\* extractToolText: the text parts of the content, then the rendering of
\* structuredContent, which spells out its token
extractToolText(resp) ==
    [parts |-> <<resp.content>>, structuredContent |-> resp.structuredContent]

\* what handleUserMessage returns: one of its fixed messages ...
Text(kind) == [kind |-> kind, confirm |-> <<>>, text |-> extractToolText(NoResponse)]

\* ... the instructions "Run these (twice) to proceed: /confirm <token>" ...
Instructions(conf) == [kind |-> "instructions", confirm |-> conf.token, text |-> extractToolText(NoResponse)]

\* ... or the text of the tool
ToolText(resp) == [kind |-> "toolText", confirm |-> <<>>, text |-> extractToolText(resp)]

IdleTurn ==
    [phase |-> "idle", userText |-> <<>>, awaitingAtStart |-> FALSE, step |-> 0,
     passes |-> 0, toolCalls |-> 0,
     dispatched |-> {}, emitted |-> {}, action |-> NoAction, call |-> NoCall,
     modelCalls |-> 0, asked |-> <<>>, pushed |-> <<>>, reply |-> "none",
     resp |-> NoResponse, returned |-> Text("none")]

\* createChatbot
AgentStart ==
    /\ awaitingSshWizardInput = FALSE
    /\ seenToolCalls = {}
    /\ turn = IdleTurn
    /\ history = <<>>
    /\ turns = <<>>

(***************************************************************************)
(* The Policy Loader: loadTerminalPolicy and createTerminalContext.        *)
(***************************************************************************)
\* a JSON value: kind "string" (val: the characters), "boolean" (val: the
\* truth value), "number", "null", "array" (val: the elements) or "object"
\* (val: the properties in order, each <<key, value>>); kind "undefined" for
\* a property that is not there and kind "error" when JSON.parse throws
J(kind, val) == [kind |-> kind, val |-> val]

\* the policy file: what fs.readFile finds ("ok" or "ENOENT") and what
\* JSON.parse makes of its text
PolicyFile(read, parsed) == [read |-> read, parsed |-> parsed]

\* process.cwd() of the server
processCwd == sandboxRootAbs

\* the keys of TerminalPolicy
PolicyKey ==
    [sandboxRoot |-> <<"s", "a", "n", "d", "b", "o", "x", "R", "o", "o", "t">>,
     auditLogPath |-> <<"a", "u", "d", "i", "t", "L", "o", "g", "P", "a", "t", "h">>,
     allowedCommands |-> <<"a", "l", "l", "o", "w", "e", "d", "C", "o", "m", "m", "a", "n", "d", "s">>,
     blockedArgsRegex |-> <<"b", "l", "o", "c", "k", "e", "d", "A", "r", "g", "s", "R", "e", "g", "e", "x">>,
     dangerousCommands |-> <<"d", "a", "n", "g", "e", "r", "o", "u", "s", "C", "o", "m", "m", "a", "n", "d", "s">>,
     dangerousPatterns |-> <<"d", "a", "n", "g", "e", "r", "o", "u", "s", "P", "a", "t", "t", "e", "r", "n", "s">>,
     confirmTtlSeconds |-> <<"c", "o", "n", "f", "i", "r", "m", "T", "t", "l", "S", "e", "c", "o", "n", "d", "s">>,
     maxOutputChars |-> <<"m", "a", "x", "O", "u", "t", "p", "u", "t", "C", "h", "a", "r", "s">>,
     maxFileReadBytes |-> <<"m", "a", "x", "F", "i", "l", "e", "R", "e", "a", "d", "B", "y", "t", "e", "s">>]

\* loadTerminalPolicy threw, or createTerminalContext after it
LoadFails(err) == [ok |-> FALSE, err |-> err, policy |-> <<>>, sandboxRootAbs |-> EmptyStr, auditLogAbs |-> EmptyStr]

\* loadTerminalPolicy(policyPath): the Policy, or the error thrown.  Reading a
\* property of null throws TypeError; of another value that is no object it
\* gives undefined.
loadTerminalPolicy(file) ==
    LET parsed == file.parsed
        undefined == J("undefined", <<>>)
        prop(key) == LET at == IF parsed.kind = "object"
                               THEN {i \in 1..Len(parsed.val) : parsed.val[i][1] = key} ELSE {}
                     IN  IF at = {} THEN undefined ELSE parsed.val[CHOOSE i \in at : TRUE][2]
        orElse(x, dflt) == IF x.kind \in {"undefined", "null"} THEN dflt ELSE x
        falsy(x) == \/ x.kind \in {"undefined", "null"}
                    \/ x.kind = "boolean" /\ ~x.val
                    \/ x.kind = "number" /\ x.val = 0
                    \/ x.kind = "string" /\ x.val = EmptyStr
        checked(commands) ==
            IF falsy(commands) \/ commands.kind # "array" \/ Len(commands.val) = 0
            THEN LoadFails("terminal-policy.json must include non-empty allowedCommands")
            ELSE [LoadFails("") EXCEPT !.ok = TRUE, !.policy =
                    [sandboxRoot |-> orElse(prop(PolicyKey.sandboxRoot), J("string", <<".">>)),
                     auditLogPath |-> orElse(prop(PolicyKey.auditLogPath), J("string", <<".", "m", "c", "p", "-", "a", "u", "d", "i", "t", "/", "t", "e", "r", "m", "i", "n", "a", "l", "-", "s", "e", "r", "v", "e", "r", ".", "j", "s", "o", "n", "l">>)),
                     allowedCommands |-> commands,
                     blockedArgsRegex |-> orElse(prop(PolicyKey.blockedArgsRegex), J("array", <<>>)),
                     dangerousCommands |-> orElse(prop(PolicyKey.dangerousCommands), J("array", <<>>)),
                     dangerousPatterns |-> orElse(prop(PolicyKey.dangerousPatterns), J("array", <<>>)),
                     confirmTtlSeconds |-> orElse(prop(PolicyKey.confirmTtlSeconds), J("number", 90)),
                     maxOutputChars |-> orElse(prop(PolicyKey.maxOutputChars), J("number", 20000)),
                     maxFileReadBytes |-> orElse(prop(PolicyKey.maxFileReadBytes), J("number", 200000))]]
    IN  IF file.read # "ok" THEN LoadFails(file.read)
        ELSE IF parsed.kind = "error" THEN LoadFails("SyntaxError")
        ELSE IF parsed.kind = "null" THEN LoadFails("TypeError")
        ELSE checked(prop(PolicyKey.allowedCommands))

\* createTerminalContext(): the policy with sandboxRootAbs and auditLogAbs
\* resolved, after fs.mkdir of the directory of the audit log, which succeeds
\* (mkdir = TRUE) or rejects; path.resolve and path.isAbsolute throw TypeError
\* on an argument that is no string
createTerminalContext(file, mkdir) ==
    LET loaded == loadTerminalPolicy(file)
        policy == loaded.policy
        root == resolve(processCwd, policy.sandboxRoot.val)
        log == policy.auditLogPath.val
    IN  IF ~loaded.ok THEN loaded
        ELSE IF policy.sandboxRoot.kind # "string" \/ policy.auditLogPath.kind # "string" THEN LoadFails("TypeError")
        ELSE IF ~mkdir THEN LoadFails("EACCES")
        ELSE [loaded EXCEPT !.sandboxRootAbs = root,
                            !.auditLogAbs = IF isAbsolute(log) THEN log ELSE resolve(root, log)]

\* the policy file of the model: the policy the server of the other
\* specifications runs under
ModelPolicyFile ==
    LET strings(names) == J("array", [i \in 1..Len(names) |-> J("string", names[i])])
    IN  PolicyFile("ok", J("object",
            << <<PolicyKey.allowedCommands, strings(<<cmdLs, cmdRm, cmdGit, cmdSlash>>)>>,
               <<PolicyKey.auditLogPath, J("string", <<"a", "/", "l">>)>>,
               <<PolicyKey.blockedArgsRegex, strings(blockedArgsRegex)>>,
               <<PolicyKey.dangerousCommands, strings(<<cmdRm>>)>>,
               <<PolicyKey.maxOutputChars, J("number", 2)>>,
               <<PolicyKey.maxFileReadBytes, J("number", 2)>> >>))

(***************************************************************************)
(* Initial state: createTerminalContext.                                   *)
(***************************************************************************)
PathIdle == <<"idle">>

\* the promise of spawnAndCapture is not settled yet
Running == <<"running">>

ServerInit ==
    /\ pending = <<>>
    /\ nextToken = 1
    /\ now = 0
    /\ lineage = <<>>
    /\ consumed = {}
    /\ last = Idle

\* no path under test
PathUnused ==
    /\ pathIn = PathIdle
    /\ pathOut = PathIdle

\* spawnAndCapture before any chunk arrived: let out = '', let err = ''
CaptureStart ==
    /\ stdoutText = EmptyStr
    /\ stderrText = EmptyStr
    /\ output = Running

\* policy.maxFileReadBytes, small enough for the contents to exceed it
maxFileReadBytes == 2

\* path.resolve(sandboxRootAbs, policy.auditLogPath) for the relative
\* auditLogPath "a/l" (the default, .mcp-audit/terminal-server.jsonl, is
\* relative too)
auditLogAbs == resolve(sandboxRootAbs, <<"a", "/", "l">>)

\* no file request served yet
FileIdle ==
    [op |-> "none", path |-> EmptyStr, content |-> EmptyStr, mode |-> "none", ok |-> TRUE, err |-> "",
     text |-> EmptyStr, reads |-> {}]

\* createTerminalContext: mkdir(dirname(auditLogAbs)) in a sandbox that is
\* empty otherwise; /p is a file outside the sandbox
FilesStart ==
    /\ disk = [files |-> (<<"/", "p">> :> <<"x">>),
               dirs |-> {Slash, sandboxRootAbs, resolve(sandboxRootAbs, <<"a">>)}]
    /\ fileLast = FileIdle

\* the server the other specifications start from: main() has loaded the
\* policy of the model and serves its tools
Booted == [file |-> ModelPolicyFile, stage |-> "serving", mkdir |-> TRUE,
           ctx |-> createTerminalContext(ModelPolicyFile, TRUE)]

\* no action under test, no call begun, the server started
ParseUnused ==
    /\ parse = [action |-> <<"none">>, wrap |-> "none", text |-> <<"not yet">>, out |-> <<"not yet">>]
    /\ calls = <<>>
    /\ boot = Booted

Init ==
    /\ ServerInit
    /\ PathUnused
    /\ CaptureStart
    /\ AgentStart
    /\ FilesStart
    /\ ParseUnused

(***************************************************************************)
(* toolRun.                                                                *)
(***************************************************************************)
\* toolRun without its allowlist test
RunErrorNoAllowlist(command, args, cwd) ==
    IF resolveSandboxPath(sandboxRootAbs, cwd) = PathEscape THEN "PathEscape"
    ELSE IF ~isSafeCommandName(command) THEN "InvalidCommandName"
    ELSE checkArgsAgainstPolicy(args)

\* the first check of toolRun that fails, "" when all pass
RunError(command, args, cwd) ==
    IF resolveSandboxPath(sandboxRootAbs, cwd) = PathEscape THEN "PathEscape"
    ELSE IF ~isSafeCommandName(command) THEN "InvalidCommandName"
    ELSE IF command \notin allowedCommands THEN "CommandNotAllowed"
    ELSE checkArgsAgainstPolicy(args)

\* run requests: a safe command, a command dangerous by name, one dangerous by
\* a pattern and safe without it, a command off the allowlist, an allowlisted
\* name that is no safe command name, an escaping cwd with and without an
\* allowlisted command, and an absolute argument outside the sandbox
RunRequests ==
    { [command |-> cmdLs,    args |-> <<argX>>,    cwd |-> <<"d">>],
      [command |-> cmdRm,    args |-> <<argX>>,    cwd |-> <<"d">>],
      [command |-> cmdGit,   args |-> <<argPush>>, cwd |-> <<".">>],
      [command |-> cmdGit,   args |-> <<>>,        cwd |-> <<".">>],
      [command |-> cmdSh,    args |-> <<>>,        cwd |-> <<"d">>],
      [command |-> cmdSlash, args |-> <<>>,        cwd |-> <<"d">>],
      [command |-> cmdLs,    args |-> <<>>,        cwd |-> <<".", ".">>],
      [command |-> cmdSh,    args |-> <<>>,        cwd |-> <<".", ".">>],
      [command |-> cmdRm,    args |-> <<argEtc>>,  cwd |-> <<"d">>] }

\* toolRun classifying by dangerousCommands alone
RunChecksByNameOnly(command, args, cwd) ==
    [cwdAbs |-> resolveSandboxPath(sandboxRootAbs, cwd),
     e |-> RunError(command, args, cwd),
     reason |-> IF command \in dangerousCommands THEN isDangerous(command, args) ELSE NoReason]

\* what the checks of toolRun find for a request: the resolved cwd, the error
\* of the first failing check and the reason of the Danger Classifier
RunChecks(command, args, cwd) ==
    [cwdAbs |-> resolveSandboxPath(sandboxRootAbs, cwd),
     e |-> RunError(command, args, cwd),
     reason |-> isDangerous(command, args)]

\* single run calls: every command of the deployment with every argument
\* vector and working directory below
RunInputs ==
    [command : {cmdLs, cmdRm, cmdGit, cmdSh, cmdSlash},
     args : { <<>>, <<argX>>, <<argSemi>>, <<argUp>>, <<argEtc>>, <<argInside>>, <<argPush>>,
              <<argForce, argX>>, <<argX, argEtc>>, <<EmptyStr>>, <<EmptyStr, argSemi>> },
     cwd : { <<"d">>, <<".", ".">>, argEtc, argInside }]

\* RunChecks of every request, computed once
RunChecked == [r \in RunRequests \cup RunInputs |-> RunChecks(r.command, r.args, r.cwd)]

Run(command, args, cwd) ==
    LET req == [command |-> command, args |-> args, cwd |-> cwd]
        checks == RunChecked[req]
        cwdAbs == checks.cwdAbs
        e == checks.e
        reason == checks.reason
    IN
    /\ UNCHANGED <<now, consumed, harnessVars>>
    /\ IF e # ""
       THEN /\ last' = Resp("run", req, NoToken, e, 0, NoToken, NoSpawn)
            /\ UNCHANGED <<pending, nextToken, lineage>>
       ELSE IF reason # NoReason
       THEN /\ nextToken <= MaxTokens
            /\ pending' = MapSet(pending, nextToken,
                                 createPendingConfirmation(nextToken, command, args, cwdAbs, reason))
            /\ nextToken' = nextToken + 1
            /\ lineage' = Track(Issued(nextToken, "run", command, args, cwdAbs, reason))
            /\ AppendAudit(AuditEntry("run_requires_confirmation_stage1", nextToken, NoToken,
                                      command, args, cwdAbs, reason, NoExit, FALSE),
                           [Resp("run", req, NoToken, "", 0, nextToken, NoSpawn)
                              EXCEPT !.envelope = Envelope(pending'[nextToken])])
       ELSE /\ UNCHANGED <<pending, nextToken, lineage>>
            /\ SpawnAndAudit(command, args, cwdAbs, NoToken, "run_executed", NoReason,
                             Resp("run", req, NoToken, "", 0, NoToken, NoSpawn))

(***************************************************************************)
(* toolConfirm.                                                            *)
(***************************************************************************)
Confirm(token) ==
    /\ UNCHANGED <<now, harnessVars>>
    /\ IF token \notin DOMAIN pending
       THEN /\ last' = Resp("confirm", NoRun, token, "ConfirmationMissing", 0, NoToken, NoSpawn)
            /\ UNCHANGED <<pending, nextToken, lineage, consumed>>
       ELSE LET p == pending[token] IN
       IF IsExpired(p)
       THEN /\ pending' = DropExpired(pending, token)
            /\ lineage' = Track(NoIssue)
            /\ last' = [Resp("confirm", NoRun, token, "ConfirmationExpired", p.stage, NoToken, NoSpawn)
                          EXCEPT !.issued = lineage[token]]
            /\ UNCHANGED <<nextToken, consumed>>
       ELSE IF p.stage = 1
       THEN /\ nextToken <= MaxTokens
            /\ pending' = AdvanceStage1(pending, token, nextToken, p)
            /\ nextToken' = nextToken + 1
            /\ lineage' = Track(lineage[token])
            /\ consumed' = consumed \cup {token}
            /\ AppendAudit(AuditEntry("confirm_stage1_issued_stage2", token, nextToken,
                                      p.command, p.args, p.cwd, p.reason, NoExit, FALSE),
                           [Resp("confirm", NoRun, token, "", 1, nextToken, NoSpawn)
                              EXCEPT !.issued = lineage[token]])
       ELSE /\ pending' = ConsumeStage2(pending, token)
            /\ consumed' = consumed \cup {token}
            /\ lineage' = Track(NoIssue)
            /\ UNCHANGED nextToken
            /\ SpawnAndAudit(p.command, p.args, p.cwd, token, "confirm_executed", p.reason,
                             [Resp("confirm", NoRun, token, "", 2, NoToken, NoSpawn)
                                EXCEPT !.issued = lineage[token]])

(***************************************************************************)
(* toolCancel.                                                             *)
(***************************************************************************)
Cancel(token) ==
    LET existed == token \in DOMAIN pending
        stage == IF existed THEN pending[token].stage ELSE 0
    IN
    /\ pending' = MapDelete(pending, token)
    /\ lineage' = Track(NoIssue)
    /\ UNCHANGED <<nextToken, now, consumed, harnessVars>>
    /\ AppendAudit(AuditEntry("confirm_cancel", token, NoToken, EmptyStr, <<>>, EmptyStr,
                              NoReason, NoExit, existed),
                   Resp("cancel", NoRun, token, "", stage, NoToken, NoSpawn))

(***************************************************************************)
(* toolGenerateSshKey.                                                     *)
(***************************************************************************)
\* an optional parameter the request leaves out
Absent == <<"undefined">>

\* params.x ?? dflt
OrDefault(x, dflt) == IF x = Absent THEN dflt ELSE x

RECURSIVE TrimLeft(_)
TrimLeft(s) == IF Len(s) > 0 /\ s[1] = " " THEN TrimLeft(Tail(s)) ELSE s

RECURSIVE TrimRight(_)
TrimRight(s) == IF Len(s) > 0 /\ s[Len(s)] = " " THEN TrimRight(SubSeq(s, 1, Len(s) - 1)) ELSE s

\* name.trim()
Trim(s) == TrimRight(TrimLeft(s))

\* ensureSafeSshKeyFileName without its test of the characters
ensureSafeSshKeyFileNameAnyChar(name) ==
    LET trimmed == Trim(name) IN
    IF trimmed = EmptyStr THEN "FilenameEmpty"
    ELSE IF Includes(trimmed, Slash) \/ Includes(trimmed, <<"\\">>) THEN "FilenameSeparator"
    ELSE IF trimmed = <<".">> \/ trimmed = DotDot THEN "FilenameInvalid"
    ELSE ""

\* the error ensureSafeSshKeyFileName throws, "" when it returns name.trim()
ensureSafeSshKeyFileName(name) ==
    LET trimmed == Trim(name) IN
    IF trimmed = EmptyStr THEN "FilenameEmpty"
    ELSE IF Includes(trimmed, Slash) \/ Includes(trimmed, <<"\\">>) THEN "FilenameSeparator"
    ELSE IF trimmed = <<".">> \/ trimmed = DotDot THEN "FilenameInvalid"
    ELSE IF ~isSafeCommandName(trimmed) THEN "FilenameCharacters"
    ELSE ""

typeEd25519 == <<"e", "d", "2", "5", "5", "1", "9">>

typeRsa == <<"r", "s", "a">>

defaultFilename == <<"i", "d", "_", "e", "d", "2", "5", "5", "1", "9">>

defaultComment == <<"s", "m", "a", "r", "t", "o", "s", "-", "m", "c", "p">>

\* path.resolve(home, '.ssh')
sshDir == resolve(homedir, <<".", "s", "s", "h">>)

\* ['-t', keyType, '-f', keyPath, '-C', comment, '-N', passphrase]
SshKeygenArgs(keyType, keyPath, comment, passphrase) ==
    << <<"-", "t">>, keyType, <<"-", "f">>, keyPath, <<"-", "C">>, comment, <<"-", "N">>, passphrase >>

\* the reason text: type, target, and the notes on overwriting and on the passphrase
SshKeygenReason(keyType, filename, exists, passphrase) ==
    [kind |-> "sshKeygen", command |-> cmdSshKeygen,
     detail |-> <<keyType, filename,
                  IF exists THEN <<"existing key files will be overwritten">> ELSE EmptyStr,
                  IF passphrase # EmptyStr THEN <<"a passphrase was provided">> ELSE <<"empty passphrase">> >>]

\* generate_ssh_key requests with the state of ~/.ssh they meet: the defaults,
\* an rsa key replacing an existing one, an existing key without overwrite,
\* unsafe file names (a parent reference, a separator, an empty name, a single
\* dot, a space inside the name), and a home directory where mkdir fails
KeyRequests ==
    { [type |-> Absent,  comment |-> Absent, passphrase |-> Absent, filename |-> Absent,            overwrite |-> FALSE, exists |-> FALSE, mkdirOk |-> TRUE],
      [type |-> typeRsa, comment |-> Absent, passphrase |-> Absent, filename |-> <<" ", "k">>,      overwrite |-> TRUE,  exists |-> TRUE,  mkdirOk |-> TRUE],
      [type |-> Absent,  comment |-> Absent, passphrase |-> Absent, filename |-> Absent,            overwrite |-> FALSE, exists |-> TRUE,  mkdirOk |-> TRUE],
      [type |-> Absent,  comment |-> Absent, passphrase |-> Absent, filename |-> <<".", ".">>,      overwrite |-> FALSE, exists |-> FALSE, mkdirOk |-> TRUE],
      [type |-> Absent,  comment |-> Absent, passphrase |-> Absent, filename |-> <<"a", "/", "b">>, overwrite |-> TRUE,  exists |-> FALSE, mkdirOk |-> TRUE],
      [type |-> Absent,  comment |-> Absent, passphrase |-> Absent, filename |-> EmptyStr,          overwrite |-> TRUE,  exists |-> FALSE, mkdirOk |-> TRUE],
      [type |-> Absent,  comment |-> Absent, passphrase |-> Absent, filename |-> <<".">>,           overwrite |-> TRUE,  exists |-> FALSE, mkdirOk |-> TRUE],
      [type |-> Absent,  comment |-> Absent, passphrase |-> Absent, filename |-> <<"a", " ", "b">>, overwrite |-> TRUE,  exists |-> FALSE, mkdirOk |-> TRUE],
      [type |-> Absent,  comment |-> Absent, passphrase |-> Absent, filename |-> Absent,            overwrite |-> FALSE, exists |-> FALSE, mkdirOk |-> FALSE] }

\* What toolGenerateSshKey computes before it touches the store: the error of
\* the first failing step and the ssh-keygen payload.  exists: whether stat
\* finds the key file or its .pub; mkdirOk: whether mkdir(~/.ssh) succeeds.
\* Both are facts of the home directory.
KeyChecks(type, fname, comm, pass, overwrite, exists, mkdirOk) ==
    LET keyType == OrDefault(type, typeEd25519)
        nameErr == ensureSafeSshKeyFileName(OrDefault(fname, defaultFilename))
        filename == Trim(OrDefault(fname, defaultFilename))
        comment == OrDefault(comm, defaultComment)
        passphrase == OrDefault(pass, EmptyStr)
        keyPath == sshDir \o Slash \o filename
    IN  [keyType |-> keyType,
         keyPath |-> keyPath,
         args |-> SshKeygenArgs(keyType, keyPath, comment, passphrase),
         reason |-> SshKeygenReason(keyType, filename, exists, passphrase),
         e |-> IF nameErr # "" THEN nameErr
               ELSE IF ~mkdirOk THEN "IOFailure"
               ELSE IF exists /\ ~overwrite THEN "KeyExists"
               ELSE ""]

\* KeyChecks of every request, computed once
KeyChecked ==
    [r \in KeyRequests |->
        KeyChecks(r.type, r.filename, r.comment, r.passphrase, r.overwrite, r.exists, r.mkdirOk)]

GenerateSshKey(type, fname, comm, pass, overwrite, exists, mkdirOk) ==
    LET checks == KeyChecked[[type |-> type, filename |-> fname, comment |-> comm, passphrase |-> pass,
                              overwrite |-> overwrite, exists |-> exists, mkdirOk |-> mkdirOk]]
        keyType == checks.keyType
        keyPath == checks.keyPath
        args == checks.args
        reason == checks.reason
        e == checks.e
        key == [filename |-> fname, overwrite |-> overwrite, exists |-> exists]
    IN
    /\ UNCHANGED <<now, consumed, harnessVars>>
    /\ IF e # ""
       THEN /\ last' = [Resp("generate_ssh_key", NoRun, NoToken, e, 0, NoToken, NoSpawn)
                          EXCEPT !.key = key]
            /\ UNCHANGED <<pending, nextToken, lineage>>
       ELSE /\ nextToken <= MaxTokens
            /\ pending' = MapSet(pending, nextToken,
                                 createPendingConfirmation(nextToken, cmdSshKeygen, args, homedir, reason))
            /\ nextToken' = nextToken + 1
            /\ lineage' = Track(Issued(nextToken, "generate_ssh_key", cmdSshKeygen, args, homedir, reason))
            /\ AppendAudit([AuditEntry("ssh_keygen_requires_confirmation_stage1", nextToken, NoToken,
                                       EmptyStr, <<>>, EmptyStr, NoReason, NoExit, FALSE)
                            EXCEPT !.keyType = keyType, !.keyPath = keyPath, !.overwrite = overwrite],
                           [Resp("generate_ssh_key", NoRun, NoToken, "", 0, nextToken, NoSpawn)
                              EXCEPT !.key = key, !.envelope = Envelope(pending'[nextToken])])

(***************************************************************************)
(* Time passes between requests.                                           *)
(***************************************************************************)
tickMs == ttlMs

Tick ==
    /\ now < MaxTicks * tickMs
    /\ now' = now + tickMs
    /\ last' = Idle
    /\ UNCHANGED <<pending, nextToken, lineage, consumed, harnessVars>>

(***************************************************************************)
(* The requests a client can send.                                         *)
(***************************************************************************)
Tokens == 1..MaxTokens

RunStep ==
    \E r \in RunRequests : Run(r.command, r.args, r.cwd)

ConfirmStep ==
    \E token \in Tokens : Confirm(token)

CancelStep ==
    \E token \in Tokens : Cancel(token)

GenerateSshKeyStep ==
    \E r \in KeyRequests :
        GenerateSshKey(r.type, r.filename, r.comment, r.passphrase, r.overwrite, r.exists, r.mkdirOk)

Next ==
    \/ RunStep
    \/ ConfirmStep
    \/ CancelStep
    \/ GenerateSshKeyStep
    \/ Tick

Spec == Init /\ [][Next]_vars

(***************************************************************************)
(* toolRun on its own: one run call to the server as it starts.            *)
(***************************************************************************)
RunOnce ==
    /\ last = Idle
    /\ \E r \in RunInputs : Run(r.command, r.args, r.cwd)

SpecRun == Init /\ [][RunOnce]_vars

(***************************************************************************)
(* Overlapping requests.  A handler runs without interruption up to its    *)
(* next await (appendAudit, spawnAndCapture); while it is suspended other  *)
(* requests begin and resume.  The run requests are `rm x`, which          *)
(* the policy gates.  Time stands still, so no record expires.             *)
(***************************************************************************)
\* a call: the tool and the token it names, the await where it is suspended
\* ("audit", "spawn", or "done" once it returned or threw), whether the token
\* had been issued when it began, whether it found a record under the token,
\* the stage of that record, the token it stored and whether it called spawn
Call(op, token, pc, found, stage, newToken, spawned) ==
    [op |-> op, token |-> token, pc |-> pc, known |-> (token # NoToken /\ token < nextToken),
     found |-> found, stage |-> stage, newToken |-> newToken, spawned |-> spawned]

\* a step of the overlap model leaves everything but the store, the token
\* source and the calls alone
OverlapFrame ==
    UNCHANGED <<now, lineage, consumed, last, pathVars, captureVars, agentVars, fileVars, parse, boot>>

\* toolRun up to await appendAudit: createPendingConfirmation
BeginRun ==
    /\ Len(calls) < MaxCalls
    /\ nextToken <= MaxTokens
    /\ pending' = MapSet(pending, nextToken,
                         createPendingConfirmation(nextToken, cmdRm, <<argX>>, sandboxRootAbs,
                                                   isDangerous(cmdRm, <<argX>>)))
    /\ nextToken' = nextToken + 1
    /\ calls' = Append(calls, Call("run", NoToken, "audit", FALSE, 0, nextToken, FALSE))
    /\ OverlapFrame

\* toolConfirm up to its first await: the lookup, the expiry test, and for
\* stage 1 delete, set and await appendAudit, for stage 2 delete and await
\* spawnAndCapture, whose executor has called spawn
BeginConfirm(token) ==
    /\ Len(calls) < MaxCalls
    /\ OverlapFrame
    /\ IF token \notin DOMAIN pending
       THEN /\ calls' = Append(calls, Call("confirm", token, "done", FALSE, 0, NoToken, FALSE))
            /\ UNCHANGED <<pending, nextToken>>
       ELSE LET p == pending[token] IN
       IF IsExpired(p)
       THEN /\ pending' = DropExpired(pending, token)
            /\ calls' = Append(calls, Call("confirm", token, "done", FALSE, p.stage, NoToken, FALSE))
            /\ UNCHANGED nextToken
       ELSE IF p.stage = 1
       THEN /\ nextToken <= MaxTokens
            /\ pending' = AdvanceStage1(pending, token, nextToken, p)
            /\ nextToken' = nextToken + 1
            /\ calls' = Append(calls, Call("confirm", token, "audit", TRUE, 1, nextToken, FALSE))
       ELSE /\ pending' = ConsumeStage2(pending, token)
            /\ calls' = Append(calls, Call("confirm", token, "spawn", TRUE, 2, NoToken, TRUE))
            /\ UNCHANGED nextToken

\* toolCancel up to await appendAudit: existed = ctx.pending.delete(token)
BeginCancel(token) ==
    /\ Len(calls) < MaxCalls
    /\ pending' = MapDelete(pending, token)
    /\ calls' = Append(calls, Call("cancel", token, "audit", token \in DOMAIN pending,
                                   IF token \in DOMAIN pending THEN pending[token].stage ELSE 0,
                                   NoToken, FALSE))
    /\ UNCHANGED nextToken
    /\ OverlapFrame

\* a suspended handler goes on: the child closed and the handler awaits
\* appendAudit, or spawn failed and it throws; the append settled and the
\* handler returns or throws.  It does not touch the store any more.
Resume(i) ==
    /\ calls[i].pc # "done"
    /\ \/ calls[i].pc = "spawn" /\ calls' = [calls EXCEPT ![i].pc = "audit"]
       \/ calls' = [calls EXCEPT ![i].pc = "done"]
    /\ UNCHANGED <<pending, nextToken>>
    /\ OverlapFrame

\* a request names a token issued so far, or the one to be issued next
BeginConfirmStep == \E token \in 1..nextToken : token \in Tokens /\ BeginConfirm(token)

BeginCancelStep == \E token \in 1..nextToken : token \in Tokens /\ BeginCancel(token)

ResumeStep == \E i \in DOMAIN calls : Resume(i)

OverlapNext ==
    \/ BeginRun
    \/ BeginConfirmStep
    \/ BeginCancelStep
    \/ ResumeStep

SpecOverlap == Init /\ [][OverlapNext]_vars

(***************************************************************************)
(* The path resolver on its own: resolveSandboxPath applied to every user  *)
(* path of at most MaxPathLen characters over PathChars, for each of the   *)
(* sandbox roots.                                                          *)
(***************************************************************************)
PathChars == {"/", ".", "s", "a"}

RECURSIVE StringsUpTo(_)
\* the strings over PathChars of at most n characters
StringsUpTo(n) ==
    IF n = 0 THEN {EmptyStr}
    ELSE LET shorter == StringsUpTo(n - 1)
         IN  shorter \cup {Append(p, c) : p \in shorter, c \in PathChars}

UserPaths == StringsUpTo(MaxPathLen)

SandboxRoots == {<<"/", "s">>, <<"/", "s", "/", "a">>, <<"/">>}

PathInit ==
    /\ ServerInit
    /\ CaptureStart
    /\ AgentStart
    /\ FilesStart
    /\ ParseUnused
    /\ pathIn \in SandboxRoots \X UserPaths
    /\ pathOut = PathIdle

ResolvePath ==
    /\ pathOut = PathIdle
    /\ pathOut' = resolveSandboxPath(pathIn[1], pathIn[2])
    /\ UNCHANGED <<pathIn, serverVars, captureVars, agentVars, restVars>>

PathNext == ResolvePath

SpecPath == PathInit /\ [][PathNext]_vars

(***************************************************************************)
(* spawnAndCapture on its own: the child writes chunks to stdout and       *)
(* stderr in any order and then closes.                                    *)
(***************************************************************************)
\* the policy's maxOutputChars, small enough for the chunks to exceed it
maxOutputChars == 2

DecimalDigits == <<"0", "1", "2", "3", "4", "5", "6", "7", "8", "9">>

RECURSIVE Decimal(_)
\* `${n}` for n >= 0
Decimal(n) ==
    LET digit == <<DecimalDigits[(n % 10) + 1]>>
    IN  IF n < 10 THEN digit ELSE Decimal(n \div 10) \o digit

\* `\n...[truncated to ${maxChars} chars]`
TruncationSuffix(maxChars) ==
    <<"\n", ".", ".", ".", "[", "t", "r", "u", "n", "c", "a", "t", "e", "d", " ", "t", "o", " ">>
        \o Decimal(maxChars) \o <<" ", "c", "h", "a", "r", "s", "]">>

\* clampText appending the marker without cutting the text
clampTextKeepsAll(s, maxChars) ==
    IF Len(s) <= maxChars THEN s ELSE s \o TruncationSuffix(maxChars)

clampText(s, maxChars) ==
    IF Len(s) <= maxChars THEN s ELSE SubSeq(s, 1, maxChars) \o TruncationSuffix(maxChars)

\* the characters of a chunk
ChunkChars == {"a", " "}

RECURSIVE ChunksUpTo(_)
\* the texts over ChunkChars of at most n characters
ChunksUpTo(n) ==
    IF n = 0 THEN {EmptyStr}
    ELSE LET shorter == ChunksUpTo(n - 1)
         IN  shorter \cup {Append(c, x) : c \in shorter, x \in ChunkChars}

Chunks == ChunksUpTo(MaxChunkLen) \ {EmptyStr}

\* what a 'data' handler leaves in its buffer
Captured(buffer, d) ==
    LET text == buffer \o d
    IN  IF Len(text) > maxOutputChars THEN clampText(text, maxOutputChars) ELSE text

Whitespace == {" ", "\n", "\t", "\r"}

RECURSIVE trimEnd(_)
trimEnd(s) ==
    IF Len(s) > 0 /\ s[Len(s)] \in Whitespace THEN trimEnd(SubSeq(s, 1, Len(s) - 1)) ELSE s

StderrSeparator == <<"\n", "[", "s", "t", "d", "e", "r", "r", "]", "\n">>

NoOutput == <<"(", "n", "o", " ", "o", "u", "t", "p", "u", "t", ")">>

\* the output of the 'close' handler
Combined(o, e) ==
    LET combined == trimEnd(o \o (IF e # EmptyStr THEN StderrSeparator \o e ELSE EmptyStr))
    IN  IF combined # EmptyStr THEN combined ELSE NoOutput

\* child.stdout.on('data')
StdoutData(d) ==
    /\ output = Running
    /\ stdoutText' = Captured(stdoutText, d)
    /\ UNCHANGED <<stderrText, output, serverVars, pathVars, agentVars, restVars>>

\* child.stderr.on('data')
StderrData(d) ==
    /\ output = Running
    /\ stderrText' = Captured(stderrText, d)
    /\ UNCHANGED <<stdoutText, output, serverVars, pathVars, agentVars, restVars>>

\* child.on('close')
Close ==
    /\ output = Running
    /\ output' = Combined(stdoutText, stderrText)
    /\ UNCHANGED <<stdoutText, stderrText, serverVars, pathVars, agentVars, restVars>>

CaptureNext ==
    \/ \E d \in Chunks : StdoutData(d)
    \/ \E d \in Chunks : StderrData(d)
    \/ Close

SpecCapture == Init /\ [][CaptureNext]_vars

(***************************************************************************)
(* The file tools: read_file, write_file and diff on a file system that    *)
(* holds the sandbox, the audit log inside it, and one file outside.  A    *)
(* string is a sequence of characters; "u00e9" stands for a character      *)
(* that UTF-8 encodes in two bytes, every other one takes one byte.        *)
(***************************************************************************)
\* the paths a client names: a file, a file in a directory to be made, the
\* audit log, the sandbox root, and two ways to the file outside
FilePaths ==
    { <<"f">>, <<"f", "/", "g">>, <<"a", "/", "l">>, <<".">>, <<".", ".", "/", "p">>, <<"/", "p">> }

\* resolveSandboxPath and path.relative of every path, computed once
FileResolved ==
    [p \in FilePaths |->
        LET abs == resolveSandboxPath(sandboxRootAbs, p)
        IN  [abs |-> abs, rel |-> IF abs = PathEscape THEN EmptyStr ELSE relative(sandboxRootAbs, abs)]]

\* Buffer.byteLength(s) for the first i characters of s
ByteLength(s, i) ==
    LET bytes[k \in 0..Len(s)] == IF k = 0 THEN 0 ELSE bytes[k - 1] + (IF s[k] = "u00e9" THEN 2 ELSE 1)
    IN  bytes[i]

\* toolReadFile: buf.subarray(0, maxBytes).toString('utf-8') with the marker
\* when the file is longer than maxBytes; a character cut in the middle
\* decodes to U+FFFD
ReadText(buf, maxBytes) ==
    LET whole == {i \in 0..Len(buf) : ByteLength(buf, i) <= maxBytes}
        k == CHOOSE i \in whole : \A j \in whole : j <= i
        cut == IF ByteLength(buf, k) < maxBytes THEN <<"uFFFD">> ELSE EmptyStr
    IN  IF ByteLength(buf, Len(buf)) <= maxBytes THEN buf
        ELSE SubSeq(buf, 1, k) \o cut
               \o <<"\n", ".", ".", ".", "[", "t", "r", "u", "n", "c", "a", "t", "e", "d", " ", "t", "o", " ">>
               \o Decimal(maxBytes) \o <<" ", "b", "y", "t", "e", "s", "]">>

\* appendAudit on the file system d: fs.appendFile(ctx.auditLogAbs, line); the
\* line is abbreviated to the initial of its event and the newline
AuditAppended(d, event) ==
    LET old == IF auditLogAbs \in DOMAIN d.files THEN d.files[auditLogAbs] ELSE EmptyStr
    IN  [d EXCEPT !.files = MapSet(d.files, auditLogAbs, old \o <<event, "\n">>)]

\* the end of a file handler that reached its appendAudit on the file system
\* d: the line is appended and the response is resp, or appendFile throws; no
\* file grows beyond MaxFileLen characters
FileAudit(d, event, resp) ==
    /\ \/ disk' = AuditAppended(d, event) /\ fileLast' = resp
       \/ disk' = d /\ fileLast' = [resp EXCEPT !.ok = FALSE, !.err = "AuditFailure", !.text = EmptyStr]
    /\ \A f \in DOMAIN disk'.files : Len(disk'.files[f]) <= MaxFileLen

\* a file handler that throws err before any change of the file system
FileFails(resp, err) ==
    /\ fileLast' = [resp EXCEPT !.ok = FALSE, !.err = err]
    /\ disk' = disk

toolReadFile(path) ==
    LET abs == FileResolved[path].abs
        resp == [FileIdle EXCEPT !.op = "read_file", !.path = path]
        stat == [resp EXCEPT !.reads = {abs}]
    IN
    /\ UNCHANGED <<serverVars, pathVars, captureVars, agentVars, parse, calls, boot>>
    /\ IF abs = PathEscape THEN FileFails(resp, "PathEscape")
       ELSE IF abs \in disk.dirs THEN FileFails(stat, "NotAFile")
       ELSE IF abs \notin DOMAIN disk.files THEN FileFails(stat, "IOFailure")
       ELSE FileAudit(disk, "R", [stat EXCEPT !.text = ReadText(disk.files[abs], maxFileReadBytes)])

toolWriteFile(path, content, mode) ==
    LET abs == FileResolved[path].abs
        resp == [FileIdle EXCEPT !.op = "write_file", !.path = path, !.content = content, !.mode = mode]
        \* fs.mkdir(path.dirname(abs), {recursive: true})
        parents == {SubSeq(abs, 1, i - 1) : i \in {j \in 2..Len(abs) : abs[j] = "/"}}
        made == [disk EXCEPT !.dirs = @ \cup parents]
        old == IF abs \in DOMAIN disk.files THEN disk.files[abs] ELSE EmptyStr
        written == [made EXCEPT !.files = MapSet(@, abs, IF mode = "append" THEN old \o content ELSE content)]
    IN
    /\ UNCHANGED <<serverVars, pathVars, captureVars, agentVars, parse, calls, boot>>
    /\ IF abs = PathEscape THEN FileFails(resp, "PathEscape")
       ELSE IF parents \cap DOMAIN disk.files # {} THEN FileFails(resp, "IOFailure")
       ELSE IF abs \in made.dirs \/ (mode = "create" /\ abs \in DOMAIN disk.files)
            THEN fileLast' = [resp EXCEPT !.ok = FALSE, !.err = "IOFailure"] /\ disk' = made
       ELSE FileAudit(written, "W",
                      [resp EXCEPT !.text = <<"W", "r", "o", "t", "e", " ">>
                                               \o Decimal(ByteLength(content, Len(content)))
                                               \o <<" ", "b", "y", "t", "e", "s", " ", "t", "o", " ">>
                                               \o FileResolved[path].rel])

\* the patch of createTwoFilesPatch is kept as the names and the two texts it
\* is computed from
toolDiff(path, newContent) ==
    LET abs == FileResolved[path].abs
        resp == [FileIdle EXCEPT !.op = "diff", !.path = path, !.content = newContent]
        old == IF abs \in DOMAIN disk.files THEN disk.files[abs] ELSE EmptyStr
        rel == FileResolved[path].rel
    IN
    /\ UNCHANGED <<serverVars, pathVars, captureVars, agentVars, parse, calls, boot>>
    /\ IF abs = PathEscape THEN FileFails(resp, "PathEscape")
       ELSE FileAudit(disk, "D",
                      [resp EXCEPT !.reads = {abs},
                                   !.text = << <<"a", "/">> \o rel, <<"b", "/">> \o rel, old, newContent >>])

\* write_file requests: contents of one, three (two characters) and three
\* bytes written over the file, appended and created, and a write to every
\* other path
WriteRequests ==
    { [path |-> <<"f">>,                    content |-> <<"a">>,           mode |-> "overwrite"],
      [path |-> <<"f">>,                    content |-> <<"a", "u00e9">>,  mode |-> "overwrite"],
      [path |-> <<"f">>,                    content |-> <<"a", "b", "c">>, mode |-> "overwrite"],
      [path |-> <<"f">>,                    content |-> <<"a">>,           mode |-> "append"],
      [path |-> <<"f">>,                    content |-> <<"a">>,           mode |-> "create"],
      [path |-> <<"f", "/", "g">>,          content |-> <<"a">>,           mode |-> "overwrite"],
      [path |-> <<"a", "/", "l">>,          content |-> <<"a">>,           mode |-> "overwrite"],
      [path |-> <<".">>,                    content |-> <<"a">>,           mode |-> "overwrite"],
      [path |-> <<".", ".", "/", "p">>,     content |-> <<"a">>,           mode |-> "overwrite"],
      [path |-> <<"/", "p">>,               content |-> <<"a">>,           mode |-> "overwrite"] }

ReadFile == \E path \in FilePaths : toolReadFile(path)

WriteFile == \E r \in WriteRequests : toolWriteFile(r.path, r.content, r.mode)

Diff == \E path \in FilePaths : toolDiff(path, <<"a">>)

FileNext ==
    \/ ReadFile
    \/ WriteFile
    \/ Diff

SpecFiles == Init /\ [][FileNext]_vars



(***************************************************************************)
(* The chatbot of the client (client/src/config.ts, createChatbot): names  *)
(* and texts.                                                              *)
(***************************************************************************)
\* the names of servers: the terminal server, a second server of mcp.json,
\* and a name the model invents
Server ==
    [terminal |-> <<"t", "e", "r", "m", "i", "n", "a", "l", "-", "s", "e", "r", "v", "e", "r">>,
     other |-> <<"f", "s">>,
     unknown |-> <<"x">>]

\* the servers the client is connected to
servers == {Server.terminal, Server.other}

\* the names of tools
Tool ==
    [run |-> <<"r", "u", "n">>,
     confirm |-> <<"c", "o", "n", "f", "i", "r", "m">>,
     generate_ssh_key |-> <<"g", "e", "n", "e", "r", "a", "t", "e", "_", "s", "s", "h", "_", "k", "e", "y">>,
     find_files |-> <<"f", "i", "n", "d", "_", "f", "i", "l", "e", "s">>,
     list |-> <<"l", "i", "s", "t">>]

\* the property names of tool arguments
Key ==
    [type |-> <<"t", "y", "p", "e">>,
     filename |-> <<"f", "i", "l", "e", "n", "a", "m", "e">>,
     comment |-> <<"c", "o", "m", "m", "e", "n", "t">>,
     passphrase |-> <<"p", "a", "s", "s", "p", "h", "r", "a", "s", "e">>,
     overwrite |-> <<"o", "v", "e", "r", "w", "r", "i", "t", "e">>,
     command |-> <<"c", "o", "m", "m", "a", "n", "d">>,
     cwd |-> <<"c", "w", "d">>,
     token |-> <<"t", "o", "k", "e", "n">>,
     foo |-> <<"f", "o", "o">>]

\* the words and phrases the chatbot and the router look for
Word ==
    [useDefaults |-> <<"u", "s", "e", " ", "d", "e", "f", "a", "u", "l", "t", "s">>,
     defaults |-> <<"d", "e", "f", "a", "u", "l", "t", "s">>,
     default |-> <<"d", "e", "f", "a", "u", "l", "t">>,
     overwrite |-> <<"o", "v", "e", "r", "w", "r", "i", "t", "e">>,
     no |-> <<"n", "o">>,
     dont |-> <<"d", "o", "n", "'", "t">>,
     use |-> <<"u", "s", "e">>,
     date |-> <<"d", "a", "t", "e">>]

\* text.toLowerCase()
toLowerCase(text) ==
    LET lowers == <<"a","b","c","d","e","f","g","h","i","j","k","l","m",
                    "n","o","p","q","r","s","t","u","v","w","x","y","z">>
        uppers == <<"A","B","C","D","E","F","G","H","I","J","K","L","M",
                    "N","O","P","Q","R","S","T","U","V","W","X","Y","Z">>
        LowerChar(c) == IF c \in Upper
                        THEN lowers[CHOOSE i \in 1..26 : uppers[i] = c]
                        ELSE c
    IN  [i \in 1..Len(text) |-> LowerChar(text[i])]

\* createChatbot.isSshKeyIntent
isSshKeyIntent(text) ==
    LET t == toLowerCase(text)
    IN  \/ Includes(t, <<"s", "s", "h">>) /\ Includes(t, <<"k", "e", "y">>)
        \/ Includes(t, <<"s", "s", "h", "-", "k", "e", "y">>)
        \/ Includes(t, <<"s", "s", "h", "k", "e", "y">>)

hasExplicitDefaultsAlways(userText) == TRUE

\* handleUserMessage: hasExplicitDefaults
hasExplicitDefaults(userText) ==
    LET lower == toLowerCase(userText)
    IN  Includes(lower, Word.useDefaults) \/ lower = Word.defaults \/ lower = Word.default

(***************************************************************************)
(* parseSshWizardInput.  The texts of the model contain none of "file",    *)
(* "comment" and "passphrase", the words the regular expressions for the   *)
(* filename, the comment and the passphrase look for, so these three       *)
(* properties are never set by the general branch here.                    *)
(***************************************************************************)
\* a JSON string value and a JSON boolean value, with the text JSON.stringify
\* writes for them
Str(chars) == [kind |-> "string", text |-> <<"\"">> \o chars \o <<"\"">>]

Bool(b) == [kind |-> "boolean", text |-> IF b THEN <<"t", "r", "u", "e">> ELSE <<"f", "a", "l", "s", "e">>]

\* /\bfirst\s{gap}second\b/.test(s) for words that begin and end with a word
\* character (\w), gap being the numbers of white-space characters allowed
\* between them; an empty `first` with gap {0} is /\bsecond\b/
TestWords(s, first, gap, second) ==
    LET WordChars == Lower \cup Upper \cup Digit \cup {"_"}
        word(m) == first \o [i \in 1..m |-> " "] \o second
    IN  \E k \in 0..Len(s) : \E m \in gap :
            /\ k + Len(word(m)) <= Len(s)
            /\ \A i \in 1..Len(word(m)) :
                   IF i > Len(first) /\ i <= Len(first) + m
                   THEN s[k + i] \in Whitespace
                   ELSE s[k + i] = word(m)[i]
            /\ (k = 0 \/ s[k] \notin WordChars)
            /\ (k + Len(word(m)) = Len(s) \/ s[k + Len(word(m)) + 1] \notin WordChars)

parseSshWizardInput(text) ==
    LET t     == Trim(text)
        lower == toLowerCase(t)
        type  == IF Includes(lower, <<"e", "d", "2", "5", "5", "1", "9">>) \/ Includes(lower, <<"e", "d">>)
                 THEN <<  <<Key.type, Str(typeEd25519)>>  >>
                 ELSE IF Includes(lower, <<"r", "s", "a">>)
                      THEN <<  <<Key.type, Str(typeRsa)>>  >>
                      ELSE <<>>
        deny  == \/ TestWords(lower, Word.no, 1..Len(lower), Word.overwrite)
                 \/ TestWords(lower, <<>>, {0}, Word.dont \o <<" ">> \o Word.overwrite)
        over  == IF deny THEN <<  <<Key.overwrite, Bool(FALSE)>>  >>
                 ELSE IF TestWords(lower, <<>>, {0}, Word.overwrite)
                      THEN <<  <<Key.overwrite, Bool(TRUE)>>  >>
                      ELSE <<>>
        \* /^[a-zA-Z0-9._-]+$/.test(t)
        IsSingleToken ==
            /\ Len(t) > 0
            /\ \A i \in 1..Len(t) : t[i] \in Lower \cup Upper \cup Digit \cup {".", "_", "-"}
    IN  IF lower = Word.useDefaults \/ lower = Word.defaults \/ lower = Word.default
        THEN <<>>
        ELSE IF /\ IsSingleToken
                /\ ~Includes(lower, <<"t", "y", "p", "e">>)
                /\ ~Includes(lower, <<"p", "a", "s", "s">>)
                /\ ~Includes(lower, <<"c", "o", "m", "m", "e", "n", "t">>)
             THEN <<  <<Key.filename, Str(t)>>  >>
             ELSE type \o over

(***************************************************************************)
(* handleUserMessage: the key of a tool call, and the inputs of the model. *)
(***************************************************************************)
HasOwnPropertyAlways(args, key) == TRUE

\* Object.prototype.hasOwnProperty.call(args, key)
HasOwnProperty(args, key) == \E i \in DOMAIN args : args[i][1] = key

\* JSON.stringify(args) of an object of strings and booleans: the properties
\* in insertion order
JSONStringify(args) ==
    LET from[i \in 1..(Len(args) + 1)] ==
            IF i > Len(args) THEN <<>>
            ELSE (IF i > 1 THEN <<",">> ELSE <<>>)
                 \o <<"\"">> \o args[i][1] \o <<"\"", ":">> \o args[i][2].text
                 \o from[i + 1]
    IN  <<"{">> \o from[1] \o <<"}">>

\* `${serverName}.${toolName} ${JSON.stringify(args)}`
callKey(serverName, toolName, args) ==
    serverName \o <<".">> \o toolName \o <<" ">> \o JSONStringify(args)

\* the (server, tool, args) triple of an action or of a call; args is the
\* JSON object the property list denotes, whose properties are unordered
Triple(a) == <<a.server, a.tool, {<<a.args[i][1], a.args[i][2]>> : i \in DOMAIN a.args}>>

\* what the model can answer once parseAction accepted it; the second and
\* the third are the same call with the properties of args in either order
ModelActions ==
    LET here == Str(<<".">>)
    IN  { FinalAction,
          ToolAction(Server.terminal, Tool.run,
                     <<  <<Key.command, Str(cmdLs)>>, <<Key.cwd, here>>  >>),
          ToolAction(Server.terminal, Tool.run,
                     <<  <<Key.cwd, here>>, <<Key.command, Str(cmdLs)>>  >>),
          ToolAction(Server.terminal, Tool.run, <<  <<Key.command, Str(Word.date)>>  >>),
          ToolAction(Server.terminal, Tool.confirm, <<  <<Key.token, Str(<<"t">>)>>  >>),
          ToolAction(Server.other, Tool.confirm, <<>>),
          ToolAction(Server.terminal, Tool.generate_ssh_key, <<>>),
          ToolAction(Server.terminal, Tool.generate_ssh_key, <<  <<Key.foo, Str(<<"1">>)>>  >>),
          ToolAction(Server.terminal, Tool.generate_ssh_key,
                     <<  <<Key.overwrite, Bool(FALSE)>>  >>),
          ToolAction(Server.terminal, Tool.find_files, <<>>),
          ToolAction(Server.unknown, Tool.list, <<>>) }

\* callModel: the first answer parses, the answer to the repair prompt
\* parses, or both calls throw
ModelOutcomes == {"parsed", "repaired", "failed"}

\* callTool: a result, a result that asks for a confirmation, or an error
ToolOutcomes == {"text", "confirmation", "throws"}

\* what the user can type in chat mode
UserTexts ==
    { <<"h", "i">>,
      <<"s", "s", "h", " ", "k", "e", "y">>,
      <<"s", "s", "h", " ", "k", "e", "y", " ", "u", "s", "e", " ", "d", "e", "f", "a", "u", "l", "t", "s">>,
      <<"S", "S", "H", "-", "K", "E", "Y">>,
      <<"s", "s", "h", "k", "e", "y", " ", "d", "e", "f", "a", "u", "l", "t">>,
      <<"u", "s", "e", " ", "d", "e", "f", "a", "u", "l", "t", "s">>,
      <<" ", "m", "y", "k", "e", "y">>,
      <<"r", "s", "a", " ", "n", "e", "e", "d", "e", "d">>,
      <<"e", "d", " ", "n", "o", " ", " ", "o", "v", "e", "r", "w", "r", "i", "t", "e">> }

\* maxToolStepsPerUserTurn
maxSteps == 3

\* what handleUserMessage computes from the text of the user, for each text
UserTextChecked ==
    [u \in UserTexts |-> [intent   |-> isSshKeyIntent(u),
                          defaults |-> hasExplicitDefaults(u),
                          args     |-> parseSshWizardInput(u)]]

\* the call key and the triple of each action of the model
ModelActionChecked ==
    [a \in ModelActions |-> [key    |-> callKey(a.server, a.tool, a.args),
                             triple |-> Triple(a)]]

(***************************************************************************)
(* handleUserMessage.  One user turn is the action HandleUserMessage, up   *)
(* to the first call of the model, followed by one LoopIteration for each  *)
(* pass through the loop.  SpecAgent follows one turn at a time; turns     *)
(* that overlap at their awaits are followed by SpecTurns further down.    *)
(***************************************************************************)
GateCallSkipsTool(t, args, by, toolOutcome) ==
    [t EXCEPT !.phase = "returned", !.reply = "error", !.returned = Text("error")]

\* the turn after runTool('terminal-server', 'generate_ssh_key', args) of the
\* wizard branch and of the defaults gate, with the try / catch around it
GateCall(t, args, by, toolOutcome) ==
    IF Server.terminal \notin servers
    THEN [t EXCEPT !.phase = "returned", !.reply = "error", !.returned = Text("error")]
    ELSE LET called == [t EXCEPT
                          !.phase = "returned",
                          !.toolCalls = 1,
                          !.call = ToolCall(Server.terminal, Tool.generate_ssh_key, args, by),
                          !.dispatched = {Triple(ToolAction(Server.terminal,
                                                 Tool.generate_ssh_key, args))}]
         IN  IF toolOutcome = "throws"
             THEN [called EXCEPT !.reply = "error", !.returned = Text("error")]
             ELSE LET resp         == ToolResponse(toolOutcome)
                      confirmation == extractConfirmation(resp)
                  IN  [called EXCEPT
                         !.pushed = Append(t.pushed, Msg("tool", "result")),
                         !.resp = resp,
                         !.reply = IF confirmation # NoConfirmation
                                   THEN "pendingConfirmation" ELSE "toolText",
                         !.returned = IF confirmation # NoConfirmation
                                      THEN Instructions(confirmation) ELSE ToolText(resp)]

HandleUserMessage(userText, toolOutcome) ==
    LET t == [IdleTurn EXCEPT !.userText = userText,
                              !.awaitingAtStart = awaitingSshWizardInput,
                              !.pushed = <<Msg("user", "text")>>]
    IN  /\ turn.phase # "loop"
        /\ seenToolCalls' = {}
        /\ IF awaitingSshWizardInput
           THEN /\ awaitingSshWizardInput' = FALSE
                /\ turn' = GateCall(t, UserTextChecked[userText].args, "wizard", toolOutcome)
           ELSE IF UserTextChecked[userText].intent
           THEN IF ~UserTextChecked[userText].defaults
                THEN /\ awaitingSshWizardInput' = TRUE
                     /\ turn' = [t EXCEPT !.phase = "returned", !.reply = "wizardPrompt", !.returned = Text("wizardPrompt")]
                ELSE /\ awaitingSshWizardInput' = FALSE
                     /\ turn' = GateCall(t, <<>>, "defaults", toolOutcome)
           ELSE /\ awaitingSshWizardInput' = FALSE
                /\ turn' = IF 0 < maxSteps
                           THEN [t EXCEPT !.phase = "loop"]
                           ELSE [t EXCEPT !.phase = "returned", !.reply = "stepLimit", !.returned = Text("stepLimit")]
        /\ UNCHANGED <<serverVars, pathVars, captureVars, restVars, history, turns>>

ContinueNoLimit(t) == [t EXCEPT !.step = t.step + 1]

ContinueKeepsStep(t) == t

\* the end of a pass that neither returned nor threw: step++ and the test of
\* the loop, with the return after the loop
Continue(t) ==
    IF t.step + 1 < maxSteps
    THEN [t EXCEPT !.step = t.step + 1]
    ELSE [t EXCEPT !.step = t.step + 1, !.phase = "returned", !.reply = "stepLimit", !.returned = Text("stepLimit")]

IsConfirmNever(action) == FALSE

\* line 533: serverName === 'terminal-server' && toolName === 'confirm'
IsConfirm(action) == action.server = Server.terminal /\ action.tool = Tool.confirm

callModelWithRepairNoNudge(modelOutcome) ==
    IF modelOutcome = "parsed"
    THEN <<[nudge |-> FALSE, ok |-> TRUE]>>
    ELSE <<[nudge |-> FALSE, ok |-> FALSE], [nudge |-> FALSE, ok |-> modelOutcome = "repaired"]>>

\* lines 503-520: the calls of callModel one pass makes, each with whether it
\* carries the extra system nudge and whether it returned an action; the
\* second call is made in the catch block of the first
callModelWithRepair(modelOutcome) ==
    IF modelOutcome = "parsed"
    THEN <<[nudge |-> FALSE, ok |-> TRUE]>>
    ELSE <<[nudge |-> FALSE, ok |-> FALSE], [nudge |-> TRUE, ok |-> modelOutcome = "repaired"]>>

IsFastReturnNever(action) == FALSE

\* lines 585-594: the tool is terminal-server.find_files, or
\* terminal-server.run with (args as any)?.command === 'date'
IsFastReturn(action) ==
    \/ action.server = Server.terminal /\ action.tool = Tool.find_files
    \/ /\ action.server = Server.terminal
       /\ action.tool = Tool.run
       /\ \E i \in DOMAIN action.args : action.args[i] = <<Key.command, Str(Word.date)>>

LoopIteration(modelOutcome, action, toolOutcome) ==
    LET t0  == [turn EXCEPT !.action = NoAction, !.call = NoCall, !.pushed = <<>>,
                            !.resp = NoResponse, !.returned = Text("none"),
                            !.passes = turn.passes + 1,
                            !.asked = callModelWithRepair(modelOutcome),
                            !.modelCalls = Len(callModelWithRepair(modelOutcome))]
        t   == [t0 EXCEPT !.action = action,
                          !.pushed = <<Msg("assistant", "raw")>>,
                          !.emitted = turn.emitted \cup
                                      (IF turn.action.type = "tool"
                                       THEN {Triple(turn.action)} ELSE {})]
        key == ModelActionChecked[action].key
        noted == IF turn.step >= maxSteps - 2
                 THEN [t EXCEPT !.pushed = Append(t.pushed, Msg("tool", "budget"))]
                 ELSE t
        called == [noted EXCEPT
                     !.call = ToolCall(action.server, action.tool, action.args, "model"),
                     !.toolCalls = turn.toolCalls + 1,
                     !.dispatched = turn.dispatched \cup {ModelActionChecked[action].triple}]
        resp == ToolResponse(toolOutcome)
        conf == extractConfirmation(resp)
        answered == [called EXCEPT !.pushed = Append(noted.pushed, Msg("tool", "result")),
                                   !.resp = resp]
        wizardKeys == {Key.type, Key.filename, Key.comment, Key.passphrase, Key.overwrite}
    IN  /\ turn.phase = "loop"
        /\ IF modelOutcome = "failed"
           THEN /\ turn' = [t0 EXCEPT !.phase = "returned", !.reply = "parseFailure", !.returned = Text("parseFailure"),
                                      !.emitted = t.emitted]
                /\ UNCHANGED <<awaitingSshWizardInput, seenToolCalls>>
           ELSE IF action.type = "final"
           THEN /\ turn' = [t EXCEPT !.phase = "returned", !.reply = "final", !.returned = Text("final")]
                /\ UNCHANGED <<awaitingSshWizardInput, seenToolCalls>>
           ELSE IF IsConfirm(action)
           THEN /\ turn' = [t EXCEPT !.phase = "returned", !.reply = "manualConfirm", !.returned = Text("manualConfirm")]
                /\ UNCHANGED <<awaitingSshWizardInput, seenToolCalls>>
           ELSE IF /\ action.server = Server.terminal
                   /\ action.tool = Tool.generate_ssh_key
                   /\ \A k \in wizardKeys : ~HasOwnProperty(action.args, k)
           THEN /\ awaitingSshWizardInput' = TRUE
                /\ turn' = [t EXCEPT !.phase = "returned", !.reply = "wizardPrompt", !.returned = Text("wizardPrompt")]
                /\ UNCHANGED seenToolCalls
           ELSE IF key \in seenToolCalls
           THEN /\ turn' = Continue([t EXCEPT !.pushed = Append(t.pushed, Msg("tool", "repeat"))])
                /\ UNCHANGED <<awaitingSshWizardInput, seenToolCalls>>
           ELSE /\ seenToolCalls' = seenToolCalls \cup {key}
                /\ UNCHANGED awaitingSshWizardInput
                /\ turn' =
                     IF action.server \notin servers
                     THEN Continue([noted EXCEPT
                                      !.pushed = Append(noted.pushed, Msg("tool", "unknownServer"))])
                     ELSE IF toolOutcome = "throws"
                     THEN Continue([called EXCEPT
                                      !.pushed = Append(noted.pushed, Msg("tool", "error"))])
                     ELSE IF IsFastReturn(action)
                     THEN [answered EXCEPT !.phase = "returned", !.reply = "toolText",
                                           !.returned = ToolText(resp)]
                     ELSE IF conf # NoConfirmation
                     THEN [answered EXCEPT !.phase = "returned", !.reply = "pendingConfirmation",
                                           !.returned = Instructions(conf)]
                     ELSE Continue(answered)
        /\ UNCHANGED <<serverVars, pathVars, captureVars, restVars, history, turns>>

(***************************************************************************)
(* Slash commands: routeLine (client/src/router.ts) and the call the       *)
(* readline handler makes with its result.  A line is given as its words;  *)
(* the lines of the model carry no JSON after `use <server>.<tool>`.       *)
(***************************************************************************)
\* the routed call; by is "throws" when routeLine throws
routeLine(words) ==
    LET head   == words[1]
        rest   == Tail(words)
        throws == ToolCall(<<>>, <<>>, <<>>, "throws")
        \* target.indexOf('.'), counted from 1; 0 when there is none
        idx    == IF \E i \in DOMAIN rest[1] : rest[1][i] = "."
                  THEN CHOOSE i \in DOMAIN rest[1] :
                           rest[1][i] = "." /\ \A j \in 1..(i - 1) : rest[1][j] # "."
                  ELSE 0
    IN  IF head = Word.use
        THEN IF Len(rest) = 0 \/ idx <= 1
             THEN throws
             ELSE ToolCall(SubSeq(rest[1], 1, idx - 1),
                           SubSeq(rest[1], idx + 1, Len(rest[1])),
                           <<>>, "slash")
        ELSE IF Server.terminal \notin servers
        THEN throws
        ELSE IF head = Tool.confirm
        THEN IF Len(rest) = 0
             THEN throws
             ELSE ToolCall(Server.terminal, Tool.confirm,
                           <<  <<Key.token, Str(rest[1])>>  >>, "slash")
        ELSE throws

\* what the user can type after the "/"
SlashLines ==
    { <<Tool.confirm, <<"t">>>>,
      <<Tool.confirm>>,
      <<Word.use, Server.terminal \o <<".">> \o Tool.confirm>>,
      <<Word.use, Server.unknown \o <<".">> \o Tool.list>>,
      <<Word.use, Tool.list>> }

\* routeLine of each line
SlashRouted == [words \in SlashLines |-> routeLine(words)]

SlashCommand(words) ==
    LET routed == SlashRouted[words]
    IN  /\ turn.phase # "loop"
        /\ turn' = [IdleTurn EXCEPT
                      !.phase = "slash",
                      !.toolCalls = IF routed.by = "slash" /\ routed.server \in servers
                                    THEN 1 ELSE 0,
                      !.call = IF routed.by = "slash" /\ routed.server \in servers
                               THEN routed ELSE NoCall,
                      !.reply = IF routed.by = "slash" /\ routed.server \in servers
                                THEN "printed" ELSE "error"]
        /\ UNCHANGED <<awaitingSshWizardInput, seenToolCalls>>
        /\ UNCHANGED <<serverVars, pathVars, captureVars, restVars, history, turns>>

\* one pass of the loop of the turn in progress
LoopIterationStep ==
    \E modelOutcome \in ModelOutcomes : \E action \in ModelActions :
        \E toolOutcome \in ToolOutcomes :
            LoopIteration(modelOutcome, action, toolOutcome)

\* the lines the readline handler receives, and the passes of the loop
AgentNext ==
    \/ \E userText \in UserTexts : \E toolOutcome \in ToolOutcomes :
           HandleUserMessage(userText, toolOutcome)
    \/ LoopIterationStep
    \/ \E words \in SlashLines : SlashCommand(words)

SpecAgent == Init /\ [][AgentNext]_vars

\* every awaited call of the model and of a tool settles, so a turn in the
\* loop makes its next pass
FairSpecAgent == SpecAgent /\ WF_vars(LoopIterationStep)

(***************************************************************************)
(* Overlapping turns.  The readline handler (client/src/ollama.ts,         *)
(* rl.on('line', async ...)) calls bot.handleUserMessage for every chat    *)
(* line it receives and awaits the answer inside the listener; readline    *)
(* does not wait for that promise, so the next line is handled as soon as  *)
(* it arrives.  handleUserMessage is followed here from await to await:    *)
(* a call runs without interruption up to its next await of callModel or   *)
(* of callTool, and any suspended call may be the next one to resume.      *)
(* seenToolCalls and step are local to a call; history and                 *)
(* awaitingSshWizardInput belong to the chatbot.                           *)
(***************************************************************************)
\* the chat lines the readline handler receives before the session ends
MaxLines == 2

\* cfg.maxToolStepsPerUserTurn of the chatbot whose turns overlap
turnMaxSteps == 2

pushFirst(h, role, kind, id, step) ==
    <<[role |-> role, kind |-> kind, turn |-> id, step |-> step]>> \o h

\* history.push({role, content}) by pass `step` of call `id`
push(h, role, kind, id, step) ==
    Append(h, [role |-> role, kind |-> kind, turn |-> id, step |-> step])

\* a call of handleUserMessage: where it is suspended (pc), its locals step
\* and seenToolCalls, the action whose tool it awaits, and what it returned
Frame(id, pc, reply) ==
    [id |-> id, pc |-> pc, step |-> 0, seen |-> {}, action |-> NoAction, reply |-> reply]

\* what the user types and what the model answers in SpecTurns
TurnTexts == {<<"h", "i">>, <<"s", "s", "h", " ", "k", "e", "y">>}

TurnActions ==
    { FinalAction,
      ToolAction(Server.terminal, Tool.run, <<  <<Key.command, Str(cmdLs)>>, <<Key.cwd, Str(<<".">>)>>  >>),
      ToolAction(Server.terminal, Tool.run, <<  <<Key.cwd, Str(<<".">>)>>, <<Key.command, Str(cmdLs)>>  >>),
      ToolAction(Server.terminal, Tool.generate_ssh_key, <<>>) }

\* rl.on('line'): the chat line starts handleUserMessage, which runs up to
\* its first await or returns
Line(userText) ==
    LET id == Len(turns) + 1
    IN  /\ Len(turns) < MaxLines
        /\ history' = push(history, "user", "text", id, 0)
        /\ IF awaitingSshWizardInput
           THEN /\ awaitingSshWizardInput' = FALSE
                /\ turns' = Append(turns, Frame(id, "gate", "none"))
           ELSE IF UserTextChecked[userText].intent
           THEN IF ~UserTextChecked[userText].defaults
                THEN /\ awaitingSshWizardInput' = TRUE
                     /\ turns' = Append(turns, Frame(id, "returned", "wizardPrompt"))
                ELSE /\ awaitingSshWizardInput' = FALSE
                     /\ turns' = Append(turns, Frame(id, "gate", "none"))
           ELSE /\ UNCHANGED awaitingSshWizardInput
                /\ turns' = Append(turns, IF 0 < turnMaxSteps
                                          THEN Frame(id, "model", "none")
                                          ELSE Frame(id, "returned", "stepLimit"))
        /\ UNCHANGED <<serverVars, pathVars, captureVars, restVars, seenToolCalls, turn>>

\* step++ and the test of the for loop (step < maxSteps): the next await of callModel, or the
\* return after the loop
NextPass(f) ==
    IF f.step + 1 < turnMaxSteps
    THEN [f EXCEPT !.step = f.step + 1, !.pc = "model", !.action = NoAction]
    ELSE [f EXCEPT !.step = f.step + 1, !.pc = "returned", !.action = NoAction, !.reply = "stepLimit"]

Return(f, reply) == [f EXCEPT !.pc = "returned", !.action = NoAction, !.reply = reply]

\* the awaited callModel of call i settles: it throws (ok = FALSE) or it
\* returns an action; lines 503-576 up to the next await
ModelSettles(i, ok, action) ==
    LET f   == turns[i]
        key == ModelActionChecked[action].key
        h1  == push(history, "assistant", "raw", f.id, f.step)
        h2  == IF f.step >= turnMaxSteps - 2 THEN push(h1, "tool", "budget", f.id, f.step) ELSE h1
    IN  /\ f.pc \in {"model", "repair"}
        /\ IF ~ok
           THEN /\ turns' = [turns EXCEPT ![i] = IF f.pc = "model"
                                                  THEN [f EXCEPT !.pc = "repair"]
                                                  ELSE Return(f, "parseFailure")]
                /\ UNCHANGED <<history, awaitingSshWizardInput>>
           ELSE IF action.type = "final"
           THEN /\ history' = h1
                /\ turns' = [turns EXCEPT ![i] = Return(f, "final")]
                /\ UNCHANGED awaitingSshWizardInput
           ELSE IF IsConfirm(action)
           THEN /\ history' = h1
                /\ turns' = [turns EXCEPT ![i] = Return(f, "manualConfirm")]
                /\ UNCHANGED awaitingSshWizardInput
           ELSE IF /\ action.server = Server.terminal
                   /\ action.tool = Tool.generate_ssh_key
                   /\ \A k \in {Key.type, Key.filename, Key.comment, Key.passphrase, Key.overwrite} :
                          ~HasOwnProperty(action.args, k)
           THEN /\ history' = h1
                /\ awaitingSshWizardInput' = TRUE
                /\ turns' = [turns EXCEPT ![i] = Return(f, "wizardPrompt")]
           ELSE IF key \in f.seen
           THEN /\ history' = push(h1, "tool", "repeat", f.id, f.step)
                /\ turns' = [turns EXCEPT ![i] = NextPass(f)]
                /\ UNCHANGED awaitingSshWizardInput
           ELSE IF action.server \notin servers
           THEN /\ history' = push(h2, "tool", "unknownServer", f.id, f.step)
                /\ turns' = [turns EXCEPT ![i] = NextPass([f EXCEPT !.seen = f.seen \cup {key}])]
                /\ UNCHANGED awaitingSshWizardInput
           ELSE /\ history' = h2
                /\ turns' = [turns EXCEPT ![i] = [f EXCEPT !.seen = f.seen \cup {key},
                                                           !.pc = "tool", !.action = action]]
                /\ UNCHANGED awaitingSshWizardInput
        /\ UNCHANGED <<serverVars, pathVars, captureVars, restVars, seenToolCalls, turn>>

\* the awaited callTool of call i settles: of the loop (lines 579-612), or of
\* the wizard branch and the defaults gate (lines 458-497)
ToolSettles(i, toolOutcome) ==
    LET f    == turns[i]
        resp == ToolResponse(toolOutcome)
    IN  /\ f.pc \in {"tool", "gate"}
        /\ IF f.pc = "gate"
           THEN IF toolOutcome = "throws"
                THEN /\ turns' = [turns EXCEPT ![i] = Return(f, "error")]
                     /\ UNCHANGED history
                ELSE /\ history' = push(history, "tool", "gateResult", f.id, f.step)
                     /\ turns' = [turns EXCEPT ![i] =
                                     Return(f, IF extractConfirmation(resp) # NoConfirmation
                                               THEN "pendingConfirmation" ELSE "toolText")]
           ELSE IF toolOutcome = "throws"
           THEN /\ history' = push(history, "tool", "error", f.id, f.step)
                /\ turns' = [turns EXCEPT ![i] = NextPass(f)]
           ELSE /\ history' = push(history, "tool", "result", f.id, f.step)
                /\ turns' = [turns EXCEPT ![i] =
                                IF IsFastReturn(f.action)
                                THEN Return(f, "toolText")
                                ELSE IF extractConfirmation(resp) # NoConfirmation
                                THEN Return(f, "pendingConfirmation")
                                ELSE NextPass(f)]
        /\ UNCHANGED <<serverVars, pathVars, captureVars, restVars, seenToolCalls, turn,
                       awaitingSshWizardInput>>

ModelSettlesStep ==
    \E i \in DOMAIN turns : \E ok \in BOOLEAN : \E action \in TurnActions : ModelSettles(i, ok, action)

ToolSettlesStep ==
    \E i \in DOMAIN turns : \E toolOutcome \in ToolOutcomes : ToolSettles(i, toolOutcome)

TurnsNext ==
    \/ \E userText \in TurnTexts : Line(userText)
    \/ ModelSettlesStep
    \/ ToolSettlesStep

SpecTurns == Init /\ [][TurnsNext]_vars

(***************************************************************************)
(* The action parser of the client (config.ts): safeJsonParse,             *)
(* extractFirstJsonObjectString and parseAction, with JSON.stringify and   *)
(* JSON.parse for the values an action is made of: strings, booleans and   *)
(* objects.  Numbers, arrays, null and the escapes \b, \f and \u do not    *)
(* occur in the texts of the model.                                        *)
(***************************************************************************)
RECURSIVE JSONRender(_)
\* JSON.stringify(v)
JSONRender(v) ==
    LET quote(s) ==
            LET esc[i \in 0..Len(s)] ==
                    IF i = 0 THEN <<>>
                    ELSE esc[i - 1] \o (IF s[i] \in {"\"", "\\"} THEN <<"\\", s[i]>>
                                        ELSE IF s[i] = "\n" THEN <<"\\", "n">>
                                        ELSE <<s[i]>>)
            IN  <<"\"">> \o esc[Len(s)] \o <<"\"">>
        members[i \in 0..Len(v.val)] ==
            IF i = 0 THEN <<>>
            ELSE members[i - 1] \o (IF i > 1 THEN <<",">> ELSE <<>>)
                   \o quote(v.val[i][1]) \o <<":">> \o JSONRender(v.val[i][2])
    IN  IF v.kind = "string" THEN quote(v.val)
        ELSE IF v.kind = "boolean" THEN (IF v.val THEN <<"t", "r", "u", "e">> ELSE <<"f", "a", "l", "s", "e">>)
        ELSE <<"{">> \o members[Len(v.val)] \o <<"}">>

\* the parser could not go on
ParseFail == [ok |-> FALSE, val |-> <<>>, next |-> 0]

\* the first position from i on that holds no white space
SkipWs(s, i) ==
    LET rest == {j \in i..Len(s) : s[j] \notin Whitespace}
    IN  IF rest = {} THEN Len(s) + 1 ELSE CHOOSE j \in rest : \A k \in rest : j <= k

RECURSIVE ParseString(_, _, _)
\* JSON.parse inside a string literal, at position i, acc being the characters
\* read since the opening quote
ParseString(s, i, acc) ==
    IF i > Len(s) THEN ParseFail
    ELSE IF s[i] = "\"" THEN [ok |-> TRUE, val |-> acc, next |-> i + 1]
    ELSE IF s[i] = "\\"
         THEN IF i + 1 > Len(s) THEN ParseFail
              ELSE IF s[i + 1] \in {"\"", "\\", "/"} THEN ParseString(s, i + 2, Append(acc, s[i + 1]))
              ELSE IF s[i + 1] = "n" THEN ParseString(s, i + 2, Append(acc, "\n"))
              ELSE IF s[i + 1] = "t" THEN ParseString(s, i + 2, Append(acc, "\t"))
              ELSE IF s[i + 1] = "r" THEN ParseString(s, i + 2, Append(acc, "\r"))
              ELSE ParseFail
    ELSE IF s[i] \in {"\n", "\t", "\r"} THEN ParseFail
    ELSE ParseString(s, i + 1, Append(acc, s[i]))

RECURSIVE ParseValue(_, _)
RECURSIVE ParseMembers(_, _, _)
\* JSON.parse of the value that begins at or after position i0
ParseValue(s, i0) ==
    LET i == SkipWs(s, i0)
        str == ParseString(s, i + 1, <<>>)
        word(w) == i + Len(w) - 1 <= Len(s) /\ SubSeq(s, i, i + Len(w) - 1) = w
    IN  IF i > Len(s) THEN ParseFail
        ELSE IF s[i] = "\"" THEN (IF str.ok THEN [str EXCEPT !.val = J("string", str.val)] ELSE ParseFail)
        ELSE IF s[i] = "{" THEN ParseMembers(s, i + 1, <<>>)
        ELSE IF word(<<"t", "r", "u", "e">>) THEN [ok |-> TRUE, val |-> J("boolean", TRUE), next |-> i + 4]
        ELSE IF word(<<"f", "a", "l", "s", "e">>) THEN [ok |-> TRUE, val |-> J("boolean", FALSE), next |-> i + 5]
        ELSE ParseFail

\* JSON.parse inside an object, after its opening brace or after a comma, acc
\* being the properties read; a key that occurs again replaces its value
ParseMembers(s, i0, acc) ==
    LET i == SkipWs(s, i0)
        k == ParseString(s, i + 1, <<>>)
        c == SkipWs(s, k.next)
        v == ParseValue(s, c + 1)
        d == SkipWs(s, v.next)
        same == {j \in 1..Len(acc) : acc[j][1] = k.val}
        added == IF same = {} THEN Append(acc, <<k.val, v.val>>)
                 ELSE [j \in 1..Len(acc) |-> IF j \in same THEN <<k.val, v.val>> ELSE acc[j]]
    IN  IF i > Len(s) THEN ParseFail
        ELSE IF s[i] = "}" /\ acc = <<>> THEN [ok |-> TRUE, val |-> J("object", acc), next |-> i + 1]
        ELSE IF s[i] # "\"" THEN ParseFail
        ELSE IF ~k.ok \/ c > Len(s) \/ s[c] # ":" THEN ParseFail
        ELSE IF ~v.ok \/ d > Len(s) THEN ParseFail
        ELSE IF s[d] = "," THEN ParseMembers(s, d + 1, added)
        ELSE IF s[d] = "}" THEN [ok |-> TRUE, val |-> J("object", added), next |-> d + 1]
        ELSE ParseFail

\* JSON.parse(s): the value, or kind "error" when it throws SyntaxError
JSONParse(s) ==
    LET r == ParseValue(s, 1)
    IN  IF r.ok /\ SkipWs(s, r.next) > Len(s) THEN r.val ELSE J("error", <<"SyntaxError">>)

\* extractFirstJsonObjectString returning null
Null == <<"null">>

\* extractFirstJsonObjectString counting the braces inside strings too
extractFirstJsonObjectStringNaive(s) ==
    LET opens == {i \in 1..Len(s) : s[i] = "{"}
        start == CHOOSE i \in opens : \A j \in opens : i <= j
        body(v, i) ==
            IF v.returned # 0 \/ i > Len(s) THEN v
            ELSE LET d == IF s[i] = "{" THEN v.depth + 1 ELSE IF s[i] = "}" THEN v.depth - 1 ELSE v.depth
                 IN  [v EXCEPT !.depth = d, !.returned = IF d = 0 THEN i ELSE 0]
        RECURSIVE loop(_, _)
        loop(i, v) ==
            IF v.returned # 0 THEN SubSeq(s, start, v.returned)
            ELSE IF i > Len(s) THEN Null
            ELSE loop(i + 4, body(body(body(body(v, i), i + 1), i + 2), i + 3))
    IN  IF opens = {} THEN Null
        ELSE loop(start, [depth |-> 0, inStr |-> FALSE, escape |-> FALSE, returned |-> 0])

\* extractFirstJsonObjectString(s): the loop from the first "{" over its
\* variables depth, inStr and escape.  body is one pass of the loop at index
\* i, which returns when it ends outside a string with depth 0; loop makes
\* four passes at a time.
extractFirstJsonObjectString(s) ==
    LET opens == {i \in 1..Len(s) : s[i] = "{"}
        start == CHOOSE i \in opens : \A j \in opens : i <= j
        body(v, i) ==
            IF v.returned # 0 \/ i > Len(s) THEN v
            ELSE IF v.inStr
            THEN IF v.escape THEN [v EXCEPT !.escape = FALSE]
                 ELSE IF s[i] = "\\" THEN [v EXCEPT !.escape = TRUE]
                 ELSE [v EXCEPT !.inStr = (s[i] # "\"")]
            ELSE IF s[i] = "\"" THEN [v EXCEPT !.inStr = TRUE]
            ELSE LET d == IF s[i] = "{" THEN v.depth + 1 ELSE IF s[i] = "}" THEN v.depth - 1 ELSE v.depth
                 IN  [v EXCEPT !.depth = d, !.returned = IF d = 0 THEN i ELSE 0]
        RECURSIVE loop(_, _)
        loop(i, v) ==
            IF v.returned # 0 THEN SubSeq(s, start, v.returned)
            ELSE IF i > Len(s) THEN Null
            ELSE loop(i + 4, body(body(body(body(v, i), i + 1), i + 2), i + 3))
    IN  IF opens = {} THEN Null
        ELSE loop(start, [depth |-> 0, inStr |-> FALSE, escape |-> FALSE, returned |-> 0])

\* safeJsonParse(s), "U+0060" standing for the backtick: trim, strip the
\* fences /^```(?:json)?\s*/i and /```$/i, trim, take the first object if
\* there is one, JSON.parse
safeJsonParse(s) ==
    LET fence == <<"U+0060", "U+0060", "U+0060">>
        trim(x) == LET keep == {i \in 1..Len(x) : x[i] \notin Whitespace}
                   IN  IF keep = {} THEN EmptyStr
                       ELSE SubSeq(x, CHOOSE i \in keep : \A j \in keep : i <= j,
                                      CHOOSE i \in keep : \A j \in keep : j <= i)
        trimmed == trim(s)
        opened == SubSeq(trimmed, 4, Len(trimmed))
        named == IF StartsWith(toLowerCase(opened), <<"j", "s", "o", "n">>) THEN SubSeq(opened, 5, Len(opened)) ELSE opened
        head == IF StartsWith(trimmed, fence) THEN SubSeq(named, SkipWs(named, 1), Len(named)) ELSE trimmed
        tail == IF Len(head) >= 3 /\ SubSeq(head, Len(head) - 2, Len(head)) = fence
                THEN SubSeq(head, 1, Len(head) - 3) ELSE head
        unfenced == trim(tail)
        orElse(extracted, other) == IF extracted = Null THEN other ELSE extracted
    IN  JSONParse(orElse(extractFirstJsonObjectString(unfenced), unfenced))

\* an Action: { type: "final", text } or { type: "tool", server, tool, args };
\* type "error" with the error in text when parseAction throws
Action(type, text, server, tool, args) ==
    [type |-> type, text |-> text, server |-> server, tool |-> tool, args |-> args]

\* parseAction(modelText): the checks on the parsed value v, whose property
\* v[key] is undefined when the object has no such key
parseAction(modelText) ==
    LET Undefined == J("undefined", <<>>)
        prop(v, key) == LET at == {i \in 1..Len(v.val) : v.val[i][1] = key}
                        IN  IF at = {} THEN Undefined ELSE v.val[CHOOSE i \in at : TRUE][2]
        throws(err) == Action("error", <<err>>, EmptyStr, EmptyStr, <<>>)
        tool(server, name, args) ==
            IF server.kind # "string" THEN throws("tool.server must be a string")
            ELSE IF name.kind # "string" THEN throws("tool.tool must be a string")
            ELSE IF args.kind \notin {"undefined", "object"} THEN throws("tool.args must be an object")
            ELSE Action("tool", EmptyStr, server.val, name.val, IF args.kind = "undefined" THEN <<>> ELSE args.val)
        final(text) ==
            IF text.kind # "string" THEN throws("final.text must be a string")
            ELSE Action("final", text.val, EmptyStr, EmptyStr, <<>>)
        typed(v, type) ==
            IF type = J("string", <<"f", "i", "n", "a", "l">>) THEN final(prop(v, <<"t", "e", "x", "t">>))
            ELSE IF type = J("string", <<"t", "o", "o", "l">>)
            THEN tool(prop(v, <<"s", "e", "r", "v", "e", "r">>), prop(v, <<"t", "o", "o", "l">>),
                      prop(v, <<"a", "r", "g", "s">>))
            ELSE throws("Action.type must be tool or final")
        checked(v) ==
            IF v.kind = "error" THEN throws("SyntaxError")
            ELSE IF v.kind # "object" THEN throws("Model did not return a JSON object")
            ELSE typed(v, prop(v, <<"t", "y", "p", "e">>))
    IN  checked(safeJsonParse(modelText))

\* the JSON rendering of an action
ActionJson(a) ==
    JSONRender(IF a.type = "final"
               THEN J("object", << <<<<"t", "y", "p", "e">>, J("string", <<"f", "i", "n", "a", "l">>)>>, <<<<"t", "e", "x", "t">>, J("string", a.text)>> >>)
               ELSE J("object", << <<<<"t", "y", "p", "e">>, J("string", <<"t", "o", "o", "l">>)>>, <<<<"s", "e", "r", "v", "e", "r">>, J("string", a.server)>>,
                                   <<<<"t", "o", "o", "l">>, J("string", a.tool)>>, <<<<"a", "r", "g", "s">>, J("object", a.args)>> >>))

RECURSIVE ActionStrings(_)
\* the strings of at most n characters over a letter, the braces, the double
\* quote and the backslash
ActionStrings(n) ==
    IF n = 0 THEN {EmptyStr}
    ELSE LET shorter == ActionStrings(n - 1)
         IN  shorter \cup {Append(p, c) : p \in shorter, c \in {"a", "{", "}", "\"", "\\"}}

\* the valid actions under test: every final text, and tool actions whose
\* names and arguments hold the special characters, with an empty args, a
\* string, a boolean, a nested object and two properties
ValidActions ==
    LET k == <<"k">>
        argSets == { <<>>, << <<k, J("boolean", TRUE)>> >>,
                     << <<k, J("object", << <<<<"n">>, J("string", <<"}">>)>> >>)>> >>,
                     << <<<<"{">>, J("string", <<"\"">>)>>, <<<<"b">>, J("boolean", FALSE)>> >> }
                   \cup { << <<k, J("string", v)>> >> : v \in ActionStrings(1) }
    IN  { Action("final", t, EmptyStr, EmptyStr, <<>>) : t \in ActionStrings(MaxTextLen) }
        \cup { Action("tool", EmptyStr, s, t, a) :
                 s \in { <<"s">>, <<"}", "{">> }, t \in { <<"t">>, <<"\\", "\"">> }, a \in argSets }

\* the text is not rendered yet
NotYet == <<"not yet">>

\* parseAction has not run yet
NotParsed == Action("none", EmptyStr, EmptyStr, EmptyStr, <<>>)

\* an action the model emits: bare, inside a markdown fence, or inside prose
ParseInit ==
    /\ ServerInit
    /\ PathUnused
    /\ CaptureStart
    /\ AgentStart
    /\ FilesStart
    /\ calls = <<>>
    /\ boot = Booted
    /\ parse \in [action : ValidActions, wrap : {"bare", "fence", "prose"}, text : {NotYet}, out : {NotParsed}]

\* the model writes the action
Render ==
    /\ parse.text = NotYet
    /\ parse' = [parse EXCEPT !.text =
                    IF parse.wrap = "fence"
                    THEN <<"U+0060", "U+0060", "U+0060", "j", "s", "o", "n", "\n">> \o ActionJson(parse.action) \o <<"\n", "U+0060", "U+0060", "U+0060">>
                    ELSE IF parse.wrap = "prose"
                    THEN <<"o", "k", " ">> \o ActionJson(parse.action) \o <<" ", "x">>
                    ELSE ActionJson(parse.action)]
    /\ UNCHANGED <<serverVars, pathVars, captureVars, agentVars, fileVars, calls, boot>>

\* callModel: parseAction(raw)
ParseAction ==
    /\ parse.text # NotYet
    /\ parse.out = NotParsed
    /\ parse' = [parse EXCEPT !.out = parseAction(parse.text)]
    /\ UNCHANGED <<serverVars, pathVars, captureVars, agentVars, fileVars, calls, boot>>

ParseNext ==
    \/ Render
    \/ ParseAction

SpecParse == ParseInit /\ [][ParseNext]_vars

(***************************************************************************)
(* The start of the server: main() of index.ts over the policy files.      *)
(***************************************************************************)
\* the values allowedCommands takes in the policy files: absent, null, no
\* array, empty, and arrays of safe names, of a name with a slash, of an
\* empty name and of a number
AllowedCommandsValues ==
    LET names(s) == J("array", [i \in 1..Len(s) |-> J("string", s[i])])
    IN  { J("undefined", <<>>), J("null", <<>>), J("string", cmdLs), J("boolean", TRUE), J("number", 0),
          J("object", <<>>), names(<<>>), names(<<cmdLs>>), names(<<cmdLs, cmdRm, cmdGit>>),
          names(<<cmdLs, cmdSlash>>), names(<<EmptyStr>>), J("array", <<J("number", 7)>>) }

\* the policy files: a missing file, a text that is no JSON, JSON values that
\* are no object, and objects with allowedCommands, sandboxRoot and
\* confirmTtlSeconds present or not
PolicyFiles ==
    LET present(key, v) == IF v.kind = "undefined" THEN <<>> ELSE << <<key, v>> >>
    IN  { PolicyFile("ENOENT", J("error", <<>>)), PolicyFile("ok", J("error", <<>>)),
          PolicyFile("ok", J("null", <<>>)), PolicyFile("ok", J("number", 7)),
          PolicyFile("ok", J("string", cmdLs)), PolicyFile("ok", J("array", <<J("string", cmdLs)>>)) }
        \cup { PolicyFile("ok", J("object", present(PolicyKey.allowedCommands, commands)
                                              \o present(PolicyKey.sandboxRoot, root)
                                              \o present(PolicyKey.confirmTtlSeconds, ttl))) :
                 commands \in AllowedCommandsValues,
                 root \in {J("undefined", <<>>), J("string", <<"b">>), J("number", 7)},
                 ttl \in {J("undefined", <<>>), J("null", <<>>), J("number", 5)} }

\* main() has not run yet
NotBooted(file) == [file |-> file, stage |-> "start", mkdir |-> TRUE, ctx |-> LoadFails("")]

PolicyInit ==
    /\ ServerInit
    /\ PathUnused
    /\ CaptureStart
    /\ AgentStart
    /\ FilesStart
    /\ calls = <<>>
    /\ parse = [action |-> <<"none">>, wrap |-> "none", text |-> <<"not yet">>, out |-> <<"not yet">>]
    /\ boot \in {NotBooted(file) : file \in PolicyFiles}

\* main: const ctx = await createTerminalContext()
LoadPolicy ==
    /\ boot.stage = "start"
    /\ \E mkdir \in BOOLEAN :
          LET ctx == createTerminalContext(boot.file, mkdir)
          IN  boot' = [boot EXCEPT !.stage = IF ctx.ok THEN "context" ELSE "failed",
                                   !.mkdir = mkdir, !.ctx = ctx]
    /\ UNCHANGED <<serverVars, pathVars, captureVars, agentVars, fileVars, parse, calls>>

\* main: the tools are registered and the server is connected
Serve ==
    /\ boot.stage = "context"
    /\ boot' = [boot EXCEPT !.stage = "serving"]
    /\ UNCHANGED <<serverVars, pathVars, captureVars, agentVars, fileVars, parse, calls>>

\* main().catch: process.exit(1)
Exit ==
    /\ boot.stage = "failed"
    /\ boot' = [boot EXCEPT !.stage = "exited"]
    /\ UNCHANGED <<serverVars, pathVars, captureVars, agentVars, fileVars, parse, calls>>

PolicyNext ==
    \/ LoadPolicy
    \/ Serve
    \/ Exit

SpecPolicy == PolicyInit /\ [][PolicyNext]_vars

(***************************************************************************)
(* Properties of the confirmation protocol.                                *)
(***************************************************************************)
\* command, args and cwd of a pending record, a history entry or a spawn call
Payload(x) == <<x.command, x.args, x.cwd>>

\* the process the step started is one the Danger Classifier flags
DangerousSpawn == last.spawn.called /\ isDangerous(last.spawn.command, last.spawn.args) # NoReason

\* C1: a process for a (command, args) pair that isDangerous classifies as
\* dangerous is spawned only by confirm on a stage-2 token whose record holds
\* that pair, never by run itself.
C1_DangerousSpawnOnlyByConfirmStage2 ==
    DangerousSpawn =>
        /\ last.op = "confirm"
        /\ last.stage = 2
        /\ last.token \in consumed
        /\ last.issued.origin # last.token
        /\ <<last.issued.command, last.issued.args>> = <<last.spawn.command, last.spawn.args>>

C1_Witness ==
    /\ DangerousSpawn
    /\ last.op = "confirm"
    /\ last.issued.via = "run"
    /\ last.spawn.started

\* C2 as stated: confirm on a live stage-1 token spawns nothing, removes the
\* token and returns a fresh, different token that is now pending.
C2_Stage1ConfirmReturnsFreshToken ==
    (last.op = "confirm" /\ last.stage = 1 /\ last.err # "ConfirmationExpired") =>
        /\ last.ok
        /\ ~last.spawn.called
        /\ last.token \notin DOMAIN pending
        /\ last.newToken # NoToken
        /\ last.newToken # last.token
        /\ last.newToken \in DOMAIN pending

\* C3: a token that a confirm call advanced or executed is gone from the store,
\* and every later confirm on it fails with ConfirmationMissing, spawns nothing,
\* issues no token and leaves the store alone, whether or not the execution
\* succeeded.
C3_TokensSingleUse ==
    [][ /\ consumed' \cap DOMAIN pending' = {}
        /\ (last'.op = "confirm" /\ last'.token \in consumed) =>
              /\ last'.err = "ConfirmationMissing"
              /\ ~last'.spawn.called
              /\ last'.newToken = NoToken
              /\ pending' = pending
              /\ nextToken' = nextToken ]_vars

C3_Witness ==
    /\ last.op = "confirm"
    /\ last.token \in consumed
    /\ last.err = "ConfirmationMissing"
    /\ pending # <<>>

\* C4: confirm on a pending token whose expiry has passed fails with
\* ConfirmationExpired, removes that record and nothing else, spawns nothing
\* and issues no token, at stage 1 as at stage 2; a token that is gone stays
\* gone, and confirm on it reports a missing token.
C4_LazyExpiry ==
    [][ /\ \A t \in DOMAIN pending :
              (last'.op = "confirm" /\ last'.token = t /\ now > pending[t].expiresAtMs) =>
                  /\ last'.err = "ConfirmationExpired"
                  /\ ~last'.spawn.called
                  /\ last'.newToken = NoToken
                  /\ nextToken' = nextToken
                  /\ pending' = [u \in DOMAIN pending \ {t} |-> pending[u]]
        /\ (last'.op = "confirm" /\ last'.token \notin DOMAIN pending) =>
              /\ last'.err = "ConfirmationMissing"
              /\ ~last'.spawn.called
              /\ pending' = pending
        /\ \A t \in 1..(nextToken - 1) : t \notin DOMAIN pending => t \notin DOMAIN pending' ]_vars

C4_Witness ==
    /\ last.op = "confirm"
    /\ last.err = "ConfirmationExpired"
    /\ last.stage = 2
    /\ last.token \notin DOMAIN pending

\* C5: a stage-2 record enters the store only in a confirm call that removes a
\* stage-1 record, and it carries that record's command, args, cwd and reason;
\* a record in the store is never altered; so every pending record and every
\* process a confirm spawns has the payload captured when its stage-1 token
\* was issued.
C5_Stage2CarriesStage1Payload ==
    [][ /\ \A t \in DOMAIN pending' \ DOMAIN pending :
              pending'[t].stage = 2 =>
                  /\ last'.op = "confirm"
                  /\ last'.token \in DOMAIN pending \ DOMAIN pending'
                  /\ pending[last'.token].stage = 1
                  /\ Payload(pending'[t]) = Payload(pending[last'.token])
                  /\ pending'[t].reason = pending[last'.token].reason
        /\ \A t \in DOMAIN pending \cap DOMAIN pending' : pending'[t] = pending[t]
        /\ \A t \in DOMAIN pending' :
              /\ Payload(pending'[t]) = Payload(lineage'[t])
              /\ pending'[t].reason = lineage'[t].reason
        /\ (last'.op = "confirm" /\ last'.spawn.called) =>
              Payload(last'.spawn) = Payload(last'.issued) ]_vars

C5_Witness ==
    /\ last.op = "confirm"
    /\ last.stage = 2
    /\ last.spawn.called
    /\ last.spawn.started
    /\ Payload(last.spawn) = Payload(last.issued)
    /\ last.issued.origin \in consumed

\* C6 as stated: the store holds at most one pending record.
C6_AtMostOnePendingRecord == Cardinality(DOMAIN pending) <= 1

\* C6, amended: a token keys at most one record, its own, and a gated request
\* has at most one live token at any instant: its stage-1 token or the
\* stage-2 token that replaced it, never both.  The store may hold the
\* records of several gated requests.
C6_OneLiveTokenPerRequest ==
    /\ \A t \in DOMAIN pending : pending[t].token = t
    /\ \A t, u \in DOMAIN pending : lineage[t].origin = lineage[u].origin => t = u

C6_Witness ==
    /\ last.op = "confirm"
    /\ last.stage = 1
    /\ last.newToken \in DOMAIN pending
    /\ lineage[last.newToken].origin = last.token
    /\ last.token \notin DOMAIN pending


(***************************************************************************)
(* Properties of the allowlist and of the sandbox.                         *)
(***************************************************************************)
\* the command is no safe command name or is not on the allowlist
NotAllowedCommand(command) == ~isSafeCommandName(command) \/ command \notin allowedCommands

\* the requested commands that are not allowed
NotAllowedRequested == {c \in {r.command : r \in RunRequests} : NotAllowedCommand(c)}

\* the requested working directories that do not resolve inside the sandbox
EscapingCwds ==
    {c \in {r.cwd : r \in RunRequests} : resolveSandboxPath(sandboxRootAbs, c) = PathEscape}

\* the error of run for a command that is not allowed
NotAllowedError(command) ==
    IF ~isSafeCommandName(command) THEN "InvalidCommandName" ELSE "CommandNotAllowed"

\* C7 as stated: run with a command that is no safe command name or is not on
\* the allowlist fails with NotAllowed.
C7_NotAllowedAlwaysReported ==
    (last.op = "run" /\ last.command \in NotAllowedRequested) =>
        last.err \in {"InvalidCommandName", "CommandNotAllowed"}

\* C7, amended: run with a command that is no safe command name or is not on
\* the allowlist fails, with PathEscape when its cwd does not resolve inside
\* the sandbox and with NotAllowed otherwise; it spawns nothing, issues no
\* token and leaves the store alone.  So every process spawned by run, or by
\* confirm on a token that run issued, has a safe command name on the
\* allowlist.
C7_NotAllowedNeverRuns ==
    [][ /\ (last'.op = "run" /\ last'.command \in NotAllowedRequested) =>
              /\ ~last'.ok
              /\ last'.err = IF last'.cwd \in EscapingCwds
                             THEN "PathEscape"
                             ELSE NotAllowedError(last'.command)
              /\ ~last'.spawn.called
              /\ last'.newToken = NoToken
              /\ ~last'.requiresConfirmation
              /\ pending' = pending
              /\ nextToken' = nextToken
        /\ (last'.spawn.called /\ (last'.op = "run" \/ last'.issued.via = "run")) =>
              /\ last'.spawn.command \in allowedCommands
              /\ last'.spawn.command \notin NotAllowedRequested ]_vars

C7_Witness ==
    /\ last.op = "run"
    /\ last.command \in NotAllowedRequested
    /\ last.err = "PathEscape"
    /\ pending # <<>>

\* p is the directory root or a path beneath it
IsInside(root, p) == p = root \/ StartsWith(p, root \o Slash)

\* C9 as stated, for processes: the working directory of every process the
\* server spawns is inside sandboxRoot.
C9_SpawnCwdInsideSandbox == last.spawn.called => IsInside(sandboxRootAbs, last.spawn.cwd)

\* C10: generate_ssh_key never spawns a process; a call that succeeds stores a
\* stage-1 record for an ssh-keygen payload under the token it returns and
\* answers requiresConfirmation; ssh-keygen is spawned only by confirm on a
\* stage-2 token, after an earlier confirm consumed the stage-1 token that
\* generate_ssh_key issued.
C10_SshKeygenOnlyAfterTwoConfirms ==
    /\ last.op = "generate_ssh_key" =>
          /\ ~last.spawn.called
          /\ last.ok =>
                /\ last.requiresConfirmation
                /\ last.newToken \in DOMAIN pending
                /\ pending[last.newToken].stage = 1
                /\ pending[last.newToken].command = cmdSshKeygen
                /\ lineage[last.newToken].origin = last.newToken
    /\ \A t \in DOMAIN pending :
          lineage[t].via = "generate_ssh_key" =>
              (pending[t].stage = 2 <=> lineage[t].origin \in consumed)
    /\ (last.spawn.called /\ last.spawn.command = cmdSshKeygen) =>
          /\ last.op = "confirm"
          /\ last.stage = 2
          /\ last.issued.via = "generate_ssh_key"
          /\ last.issued.origin # last.token
          /\ {last.issued.origin, last.token} \subseteq consumed

C10_Witness ==
    /\ last.op = "confirm"
    /\ last.spawn.called
    /\ last.spawn.started
    /\ last.spawn.command = cmdSshKeygen
    /\ last.issued.via = "generate_ssh_key"

(***************************************************************************)
(* Properties of the path resolver, over SpecPath.                         *)
(***************************************************************************)
\* rel begins with an upward segment
BeginsUpward(rel) == Split(rel) # <<>> /\ Split(rel)[1] = DotDot

\* the relative path resolveSandboxPath tests for the input of the harness
RelOfInput == relative(pathIn[1], resolve(pathIn[1], pathIn[2]))

\* C8 as stated: a path resolveSandboxPath returns is absolute, normalized and
\* the root or beneath it, and the resolver fails exactly when the relative
\* path from the root begins with an upward segment or is absolute.
C8_FailsExactlyOnUpwardSegment ==
    pathOut # PathIdle =>
        /\ pathOut # PathEscape =>
              /\ isAbsolute(pathOut)
              /\ pathOut = AbsString(Normalize(Split(pathOut)))
              /\ (pathIn[1] = Slash \/ IsInside(pathIn[1], pathOut))
        /\ (pathOut = PathEscape) <=> (BeginsUpward(RelOfInput) \/ isAbsolute(RelOfInput))


(***************************************************************************)
(* Properties of the audit log and of cancel.                              *)
(***************************************************************************)
\* the step spawned a process that ran to completion
Executed == last.spawn.called /\ last.spawn.started

\* the audit event of an execution by the tool of the step
ExecutedEvent == IF last.op = "run" THEN "run_executed" ELSE "confirm_executed"

C13_AuditFailureNotFatal ==
    (Executed \/ last.newToken # NoToken \/ last.op = "cancel") => last.ok

\* C20 as stated: after cancel(t), t is not in the store; the call reports
\* whether a record existed, leaves the store alone when none did, appends
\* one confirm_cancel line carrying that flag and never spawns.
C20_CancelIdempotent ==
    [][ last'.op = "cancel" =>
            /\ last'.token \notin DOMAIN pending'
            /\ pending' = [t \in DOMAIN pending \ {last'.token} |-> pending[t]]
            /\ ~last'.spawn.called
            /\ last'.newToken = NoToken
            /\ last'.ok
            /\ last'.audit.event = "confirm_cancel"
            /\ last'.audit.token = last'.token
            /\ last'.audit.existed = (last'.token \in DOMAIN pending) ]_vars


(***************************************************************************)
(* Properties of spawnAndCapture, over SpecCapture.                        *)
(***************************************************************************)
\* the longest text a clamped stream holds
ClampedMax == maxOutputChars + Len(TruncationSuffix(maxOutputChars))

\* C11 as stated: the output spawnAndCapture returns is never longer than
\* maxOutputChars plus the truncation suffix.
C11_OutputWithinOneClamp == output # Running => Len(output) <= ClampedMax

\* C11, amended: after any number of chunks of any sizes each of the two
\* captured streams is at most maxOutputChars plus the truncation suffix long;
\* the returned output joins both streams with the stderr separator, so it is
\* at most twice that plus the separator long.
C11_EachStreamWithinOneClamp ==
    /\ Len(stdoutText) <= ClampedMax
    /\ Len(stderrText) <= ClampedMax
    /\ output # Running => Len(output) <= 2 * ClampedMax + Len(StderrSeparator)

C11_Witness ==
    /\ output # Running
    /\ Len(stdoutText) = ClampedMax
    /\ Len(stderrText) = ClampedMax
    /\ Len(output) = 2 * ClampedMax + Len(StderrSeparator)

(***************************************************************************)
(* Properties of the agent loop, over SpecAgent.                           *)
(***************************************************************************)
RepeatMsg == Msg("tool", "repeat")

\* the latest step pushed m to the history
Pushed(m) == \E i \in DOMAIN turn.pushed : turn.pushed[i] = m

\* C14: within one user turn, an action of the model whose (server, tool,
\* args) triple the model already emitted earlier in the turn leads to no
\* tool call, and the tool-role message about the repeat is pushed instead;
\* so no triple is dispatched twice.
C14_RepeatedTripleNotDispatched ==
    (turn.action.type = "tool" /\ Triple(turn.action) \in turn.emitted)
        => (turn.call = NoCall /\ Pushed(RepeatMsg))

\* the turn went through the loop and its latest pass ended without a return
LoopRanOut == turn.phase = "returned" /\ turn.passes > 0 /\ turn.step = turn.passes

TurnWithinBudget ==
    /\ turn.passes <= maxSteps
    /\ turn.toolCalls <= maxSteps
    /\ (turn.phase = "loop" => turn.passes < maxSteps)
    /\ (LoopRanOut => turn.passes = maxSteps /\ turn.reply = "stepLimit")
    /\ (turn.reply = "stepLimit" => turn.passes = maxSteps /\ turn.call.by # "wizard")

\* C15: a turn makes at most maxSteps passes through the loop and at most
\* maxSteps tool calls, a turn in the loop returns, and a turn whose last
\* pass ended without a return replies with the step-limit apology.
C15_TurnTerminatesWithinMaxSteps ==
    /\ []TurnWithinBudget
    /\ (turn.phase = "loop" ~> turn.phase = "returned")

C15_Witness ==
    /\ turn.reply = "stepLimit"
    /\ turn.passes = maxSteps
    /\ turn.toolCalls = maxSteps

\* C16: terminal-server.confirm is called only for a slash command of the
\* user; an action of the model that asks for it ends the turn with the
\* manual-confirmation reply and no tool call, and the wizard branch and the
\* defaults gate call generate_ssh_key only.
C16_AgentNeverCallsConfirm ==
    /\ (turn.call.server = Server.terminal /\ turn.call.tool = Tool.confirm)
           => turn.call.by = "slash"
    /\ (turn.action.type = "tool" /\ turn.action.server = Server.terminal
            /\ turn.action.tool = Tool.confirm)
           => (turn.call = NoCall /\ turn.phase = "returned" /\ turn.reply = "manualConfirm")
    /\ turn.call.by \in {"wizard", "defaults"}
           => (turn.call.server = Server.terminal /\ turn.call.tool = Tool.generate_ssh_key)

C16_Witness ==
    /\ turn.action.type = "tool"
    /\ turn.action.server = Server.terminal
    /\ turn.action.tool = Tool.confirm
    /\ turn.reply = "manualConfirm"
    /\ turn.toolCalls > 0

\* the turn began with the wizard flag clear and a text of SSH-key intent
IntentTurn ==
    /\ turn.phase \in {"loop", "returned"}
    /\ ~turn.awaitingAtStart
    /\ isSshKeyIntent(turn.userText)

\* the turn set the wizard flag and returned the wizard prompt, without a
\* tool call and without a call of the model
AskedWizard ==
    /\ awaitingSshWizardInput
    /\ turn.phase = "returned"
    /\ turn.reply = "wizardPrompt"
    /\ turn.toolCalls = 0
    /\ turn.modelCalls = 0

\* the turn called generate_ssh_key once, with empty arguments, and returned
\* without a call of the model
CalledWithDefaults ==
    /\ turn.phase = "returned"
    /\ turn.toolCalls = 1
    /\ turn.call = ToolCall(Server.terminal, Tool.generate_ssh_key, <<>>, "defaults")
    /\ turn.modelCalls = 0
    /\ turn.passes = 0

\* the text says "use defaults", "defaults" or "default"
SaysDefaults(text) == Includes(toLowerCase(text), Word.default)

\* the text contains "use defaults"
SaysUseDefaults(text) == Includes(toLowerCase(text), Word.useDefaults)

\* C17 as stated, with "asking for defaults" read as the text saying "use
\* defaults", "defaults" or "default": an intent turn that does not ask for
\* defaults asks the wizard questions, one that does calls generate_ssh_key
\* with empty arguments exactly once; neither calls the model.
C17_IntentGateByAnyDefaultsWord ==
    IntentTurn =>
        IF SaysDefaults(turn.userText) THEN CalledWithDefaults ELSE AskedWizard

\* C17: an intent turn whose text does not contain "use defaults" sets the
\* wizard flag and returns the wizard prompt without a tool call; one whose
\* text contains it calls generate_ssh_key with empty arguments exactly
\* once; neither calls the model.
C17_IntentGateByUseDefaults ==
    IntentTurn =>
        IF SaysUseDefaults(turn.userText) THEN CalledWithDefaults ELSE AskedWizard

C17_Witness ==
    /\ IntentTurn
    /\ SaysUseDefaults(turn.userText)
    /\ CalledWithDefaults

\* C18: a turn that begins with the wizard flag set clears the flag, calls
\* generate_ssh_key exactly once with the options parseSshWizardInput reads
\* from the text, calls the model never, and returns, whatever the text and
\* whether the tool answers or throws.
C18_WizardTurnCallsToolOnce ==
    turn.awaitingAtStart =>
        /\ ~awaitingSshWizardInput
        /\ turn.phase = "returned"
        /\ turn.toolCalls = 1
        /\ turn.call = ToolCall(Server.terminal, Tool.generate_ssh_key,
                                parseSshWizardInput(turn.userText), "wizard")
        /\ turn.modelCalls = 0
        /\ turn.passes = 0

C18_Witness ==
    /\ turn.awaitingAtStart
    /\ turn.userText = <<"e", "d", " ", "n", "o", " ", " ", "o", "v", "e", "r", "w", "r", "i", "t", "e">>
    /\ turn.call.args = <<  <<Key.type, Str(typeEd25519)>>, <<Key.overwrite, Bool(FALSE)>>  >>
    /\ turn.reply = "error"
    /\ ~awaitingSshWizardInput

\* the properties of args that are options of the SSH wizard
WizardOptions(args) ==
    {i \in DOMAIN args :
        args[i][1] \in {Key.type, Key.filename, Key.comment, Key.passphrase, Key.overwrite}}

\* x, an action or a call, names terminal-server.generate_ssh_key
IsGenerateSshKey(x) == x.server = Server.terminal /\ x.tool = Tool.generate_ssh_key

\* C19: an action of the model that names terminal-server.generate_ssh_key
\* with none of type, filename, comment, passphrase, overwrite in its args
\* is not dispatched: the turn sets the wizard flag and returns the wizard
\* prompt; every generate_ssh_key call made for the model carries an option.
C19_BareSshKeyActionNotDispatched ==
    /\ (turn.action.type = "tool" /\ IsGenerateSshKey(turn.action)
            /\ WizardOptions(turn.action.args) = {})
           => /\ turn.call = NoCall
              /\ awaitingSshWizardInput
              /\ turn.phase = "returned"
              /\ turn.reply = "wizardPrompt"
    /\ (turn.call.by = "model" /\ IsGenerateSshKey(turn.call))
           => WizardOptions(turn.call.args) # {}

C19_Witness ==
    /\ turn.action.type = "tool"
    /\ IsGenerateSshKey(turn.action)
    /\ turn.action.args # <<>>
    /\ WizardOptions(turn.action.args) = {}
    /\ turn.reply = "wizardPrompt"
    /\ awaitingSshWizardInput


(***************************************************************************)
(* Token lifetime.                                                         *)
(***************************************************************************)
\* the step stores a record under the token the handler drew
Stores(t) == last'.newToken = t /\ t \in DOMAIN pending'

\* the step is a confirm that found a record under t
ConfirmFinds(t) == last'.op = "confirm" /\ last'.token = t /\ t \in DOMAIN pending

\* C24: a record expires ttl after the call that stored it (the issuing call
\* for stage 1, the advancing confirm for stage 2); confirm accepts the token
\* it finds exactly when the current time is not later than expiresAtMs; a
\* gated command is spawned no later than 2 * ttl after the call that issued
\* its stage-1 token.
C24_TokenLifetime ==
    [][ /\ \A t \in Tokens :
            /\ Stores(t) => pending'[t].expiresAtMs = now' + confirmTtlSeconds * 1000
            /\ ConfirmFinds(t) =>
                  ((last'.err = "ConfirmationExpired") <=> (now' > pending[t].expiresAtMs))
        /\ (last'.op = "confirm" /\ last'.spawn.called) =>
              now' <= last'.issued.at + 2 * confirmTtlSeconds * 1000 ]_vars

\* a gated command spawned exactly 2 * ttl after its stage-1 token was issued
C24_Witness ==
    /\ last.op = "confirm"
    /\ last.spawn.called
    /\ now = last.issued.at + 2 * confirmTtlSeconds * 1000


(***************************************************************************)
(* generate_ssh_key: the calls that must fail.                             *)
(***************************************************************************)
\* the file names the tool is to refuse
UnsafeKeyName(s) ==
    \/ s = EmptyStr
    \/ s = <<".">>
    \/ s = <<".", ".">>
    \/ \E i \in 1..Len(s) : s[i] \in {"/", "\\"}
    \/ \E i \in 1..Len(s) : s[i] \notin Lower \cup Upper \cup Digit \cup {".", "_", "-"}

\* the step serves a generate_ssh_key request that names an unsafe file, or
\* an existing key without overwrite
ServesUnsafeKeyRequest(filename) ==
    /\ last'.op = "generate_ssh_key"
    /\ UnsafeKeyName(filename) \/ (last'.key.exists /\ ~last'.key.overwrite)

\* the call failed, drew no token, appended no line and left the store alone
KeyCallRefused ==
    /\ ~last'.ok
    /\ last'.newToken = NoToken
    /\ last'.audit = NoAudit
    /\ pending' = pending
    /\ nextToken' = nextToken

\* the file name as the request gives it
C30_RefusesUnsafeNameAsGiven ==
    [][ServesUnsafeKeyRequest(OrDefault(last'.key.filename, defaultFilename)) => KeyCallRefused]_vars

\* C30: generate_ssh_key fails without issuing a token and without an audit
\* record, and leaves the store unchanged, when the file name with its
\* surrounding whitespace trimmed is empty, '.', '..', contains a path
\* separator or a character outside [A-Za-z0-9._-], or when the key file or
\* its .pub exists and overwrite is false.
C30_RefusesUnsafeTrimmedName ==
    [][ServesUnsafeKeyRequest(Trim(OrDefault(last'.key.filename, defaultFilename))) => KeyCallRefused]_vars

\* a call refused for a character outside the set, made while a token is pending
C30_Witness ==
    /\ last.op = "generate_ssh_key"
    /\ last.err = "FilenameCharacters"
    /\ pending # <<>>


(***************************************************************************)
(* The one spawn that bypasses the allowlist.                              *)
(***************************************************************************)
\* -t <type> -f <a file directly in ~/.ssh> -C <comment> -N <passphrase>
CuratedKeygenArgs(args) ==
    /\ Len(args) = 8
    /\ args[1] = <<"-", "t">> /\ args[3] = <<"-", "f">>
    /\ args[5] = <<"-", "C">> /\ args[7] = <<"-", "N">>
    /\ args[2] \in {typeEd25519, typeRsa}
    /\ LET dir == homedir \o <<"/", ".", "s", "s", "h", "/">>
           file == SubSeq(args[4], Len(dir) + 1, Len(args[4]))
       IN  /\ StartsWith(args[4], dir)
           /\ file # EmptyStr
           /\ \A i \in 1..Len(file) : file[i] \in Lower \cup Upper \cup Digit \cup {".", "_", "-"}

\* C29: every spawned process whose command is outside allowedCommands is
\* ssh-keygen with the argument vector generate_ssh_key captured, spawned by
\* the second of two confirms (the stage-1 token consumed by the first, the
\* stage-2 token by the second); confirm spawns it although the command is
\* not allowlisted.
C29_OnlyCuratedKeygenBypassesAllowlist ==
    (last.spawn.called /\ last.spawn.command \notin allowedCommands) =>
        /\ last.op = "confirm"
        /\ last.stage = 2
        /\ last.spawn.command = cmdSshKeygen
        /\ CuratedKeygenArgs(last.spawn.args)
        /\ last.issued.via = "generate_ssh_key"
        /\ last.issued.args = last.spawn.args
        /\ last.issued.origin # last.token
        /\ {last.issued.origin, last.token} \subseteq consumed

\* ssh-keygen, which is not allowlisted, started by confirm for an rsa key
C29_Witness ==
    /\ cmdSshKeygen \notin allowedCommands
    /\ last.op = "confirm"
    /\ last.spawn.started
    /\ last.spawn.command = cmdSshKeygen
    /\ last.spawn.args[2] = typeRsa


(***************************************************************************)
(* The checks of run, over SpecRun.                                        *)
(***************************************************************************)
\* the argument matches a blocked pattern of the policy (";" or "^$"),
\* contains "..", or begins with "/" and lies outside the sandbox root
ViolatesGuard(a) ==
    \/ \E i \in 1..Len(a) : a[i] = ";"
    \/ a = EmptyStr
    \/ \E i \in 1..(Len(a) - 1) : a[i] = "." /\ a[i + 1] = "."
    \/ Len(a) > 0 /\ a[1] = "/" /\ ~IsInside(sandboxRootAbs, resolve(Slash, a))

\* the call spawned a process or stored a stage-1 record
RunWentAhead == last.op = "run" /\ (last.spawn.called \/ last.newToken # NoToken)

\* C28 as stated: every argument vector that run passes to a spawn or
\* captures in a stage-1 token has no argument that matches a blockedArgsRegex
\* pattern, contains ".." or begins with "/" and normalizes outside
\* sandboxRoot.
C28_NoViolatingArgumentGoesAhead ==
    RunWentAhead => \A k \in 1..Len(last.args) : ~ViolatesGuard(last.args[k])


\* the working directories of RunInputs outside the sandbox root: the parent
\* of the root and /etc
EscapingCwdInputs == { <<".", ".">>, <<"/", "e", "t", "c">> }

\* the errors of the Argument Guard
GuardErrors == {"BlockedArgument", "DotDotArgument", "AbsoluteArgumentOutside"}

\* the errors of the command validation
NotAllowedErrors == {"InvalidCommandName", "CommandNotAllowed"}

\* the Argument Guard refuses the vector: a non-empty argument violates it
GuardRefuses(args) == \E k \in 1..Len(args) : args[k] # EmptyStr /\ ViolatesGuard(args[k])

\* C27 as stated: command validation comes first, so a call whose command is
\* not allowed fails with NotAllowed even when its cwd escapes.
C27_CommandValidationFirst ==
    (last.op = "run" /\ NotAllowedCommand(last.command)) => last.err \in NotAllowedErrors

\* C27, amended: run applies its checks in the order cwd resolution, command
\* validation, Argument Guard, danger classification, and the error is that
\* of the first check that fails: PathEscape when the cwd escapes, whatever
\* the command; else NotAllowed when the command is not allowed, whatever the
\* arguments; else the error of the Argument Guard when it refuses an
\* argument, however dangerous the command; only a call that passes all three
\* is classified, and then stores a token or spawns.
C27_FirstFailingCheckDecides ==
    last.op = "run" =>
        IF last.cwd \in EscapingCwdInputs THEN last.err = "PathEscape"
        ELSE IF NotAllowedCommand(last.command) THEN last.err = NotAllowedError(last.command)
        ELSE IF GuardRefuses(last.args)
             THEN last.err \in GuardErrors /\ ~last.spawn.called /\ last.newToken = NoToken
        ELSE /\ last.err \notin GuardErrors \cup NotAllowedErrors \cup {"PathEscape"}
             /\ IF last.command = cmdRm \/ (last.command = cmdGit /\ last.args # <<>> /\ last.args # <<argX>>
                                              /\ last.args # <<argInside>> /\ last.args # <<EmptyStr>>)
                THEN last.newToken # NoToken /\ ~last.spawn.called
                ELSE last.newToken = NoToken /\ last.spawn.called

\* a call with a command off the allowlist and an escaping cwd
C27_Witness ==
    /\ last.op = "run"
    /\ last.command = cmdSh
    /\ last.cwd \in EscapingCwdInputs
    /\ last.err = "PathEscape"

(***************************************************************************)
(* Properties of the file tools, over SpecFiles.                           *)
(***************************************************************************)
\* the requested paths that lead out of the sandbox root /s
EscapingFilePaths == { <<".", ".", "/", "p">>, <<"/", "p">> }

\* C21: a read_file, write_file or diff call whose path escapes the sandbox
\* fails with PathEscape before any effect: it reads no file, creates no
\* directory, writes no file and appends nothing to the audit log.
C21_EscapingPathHasNoEffect ==
    [][ (fileLast'.op \in {"read_file", "write_file", "diff"} /\ fileLast'.path \in EscapingFilePaths) =>
            /\ ~fileLast'.ok
            /\ fileLast'.err = "PathEscape"
            /\ fileLast'.reads = {}
            /\ fileLast'.text = EmptyStr
            /\ disk' = disk ]_vars

\* an escaping write refused after the sandbox was written to and audited
C21_Witness ==
    /\ fileLast.op = "write_file"
    /\ fileLast.path \in EscapingFilePaths
    /\ fileLast.err = "PathEscape"
    /\ auditLogAbs \in DOMAIN disk.files
    /\ disk.files[<<"/", "p">>] = <<"x">>

\* C23 as stated, with |c| read as the size of c in bytes and for a read that
\* succeeds: read_file(p) right after a successful write_file(p, c, overwrite)
\* returns exactly c.
C23_WriteThenReadReturnsContent ==
    [][ ( /\ fileLast.op = "write_file" /\ fileLast.ok /\ fileLast.mode = "overwrite"
          /\ ByteLength(fileLast.content, Len(fileLast.content)) <= maxFileReadBytes
          /\ fileLast'.op = "read_file" /\ fileLast'.ok
          /\ fileLast'.path = fileLast.path )
        => fileLast'.text = fileLast.content ]_vars

\* the content of the audit log on the file system d
AuditLogOf(d) == IF auditLogAbs \in DOMAIN d.files THEN d.files[auditLogAbs] ELSE EmptyStr

\* C26 as stated, its first part: the audit log only grows, every step leaves
\* what the log held in place and at most appends to it.
C26_AuditLogOnlyGrows ==
    [][ /\ Len(AuditLogOf(disk')) >= Len(AuditLogOf(disk))
        /\ SubSeq(AuditLogOf(disk'), 1, Len(AuditLogOf(disk))) = AuditLogOf(disk) ]_vars

(***************************************************************************)
(* Properties of the action parser, over SpecParse.                        *)
(***************************************************************************)
\* C22: for every valid action A, with braces, double quotes and backslashes
\* in its text, names and argument strings, parsing the JSON rendering of A
\* yields A; the object is also found inside a markdown fence and inside
\* prose, the first balanced object being located by scanning the braces
\* outside quoted strings.
C22_ParseOfRenderIsAction ==
    (parse.wrap # "none" /\ parse.out # NotParsed) => parse.out = parse.action

\* a final text that closes a brace it never opened and escapes a quote,
\* parsed back from its bare rendering
C22_Witness ==
    /\ parse.wrap = "bare"
    /\ parse.out # NotParsed
    /\ parse.action.type = "final"
    /\ parse.action.text = <<"}", "\"", "\\">>
    /\ parse.out = parse.action

(***************************************************************************)
(* The store under overlapping requests, over SpecOverlap.                 *)
(***************************************************************************)
\* the calls of the given tools that name token t and satisfy the test
CallsOn(t, ops, Test(_)) == {i \in DOMAIN calls : calls[i].op \in ops /\ calls[i].token = t /\ Test(calls[i])}

\* C25: whatever the interleaving at the awaits, of the confirm calls that
\* name a token at most one passes the lookup, so a stage-2 token causes at
\* most one spawn and a stage-1 token yields at most one stage-2 token; of
\* the confirm and cancel calls that name a token exactly one finds the
\* record, provided one of them began after the token was issued.
C25_NoLockNeeded ==
    \A t \in Tokens :
        LET Found(c) == c.found
            Spawned(c) == c.spawned
            Advanced(c) == c.newToken # NoToken
            Known(c) == c.known
        IN  /\ Cardinality(CallsOn(t, {"confirm"}, Found)) <= 1
            /\ Cardinality(CallsOn(t, {"confirm"}, Spawned)) <= 1
            /\ Cardinality(CallsOn(t, {"confirm"}, Advanced)) <= 1
            /\ Cardinality(CallsOn(t, {"confirm", "cancel"}, Found)) <= 1
            /\ CallsOn(t, {"confirm", "cancel"}, Known) # {} =>
                   Cardinality(CallsOn(t, {"confirm", "cancel"}, Found)) = 1

\* two confirm calls and a cancel on the same stage-2 token, all begun while
\* the first is suspended in its spawn: only the first found the record
C25_Witness ==
    \E i, j, k \in DOMAIN calls :
        /\ i < j /\ j # k /\ i < k
        /\ calls[i].op = "confirm" /\ calls[j].op = "confirm" /\ calls[k].op = "cancel"
        /\ calls[i].token = calls[j].token /\ calls[i].token = calls[k].token
        /\ calls[i].stage = 2 /\ calls[i].found /\ calls[i].pc = "spawn"
        /\ ~calls[j].found /\ ~calls[k].found

(***************************************************************************)
(* The confirmation envelope of run and generate_ssh_key.                  *)
(***************************************************************************)
\* the latest call created a stage-1 record
CreatedStage1 == last.op \in {"run", "generate_ssh_key"} /\ last.newToken # NoToken

\* the envelope of the latest response names the record the call stored
EnvelopeOfRecord ==
    /\ last.newToken \in DOMAIN pending
    /\ last.envelope.token = pending[last.newToken].token
    /\ last.envelope.reason = pending[last.newToken].reason
    /\ last.envelope.expiresAt = toISOString(pending[last.newToken].expiresAtMs)

\* C31: the response of run or generate_ssh_key carries requiresConfirmation =
\* true exactly when the call created a stage-1 record, its token, reason and
\* expiresAt are those of that record in the store, and every other
\* successful run response carries requiresConfirmation = false.
C31_EnvelopeConsistent ==
    last.op \in {"run", "generate_ssh_key"} =>
        /\ last.requiresConfirmation <=> CreatedStage1
        /\ last.requiresConfirmation => EnvelopeOfRecord
        /\ (last.ok /\ ~CreatedStage1) => (~last.requiresConfirmation /\ last.envelope = NoEnvelope)

\* C31 when the call returned: the envelope is consistent in every response
\* that is not an error
C31_EnvelopeConsistentWhenReturned ==
    (last.op \in {"run", "generate_ssh_key"} /\ last.ok) =>
        /\ last.requiresConfirmation <=> CreatedStage1
        /\ last.requiresConfirmation => EnvelopeOfRecord
        /\ ~CreatedStage1 => (~last.requiresConfirmation /\ last.envelope = NoEnvelope)

(***************************************************************************)
(* The store after a call that returns an error.                           *)
(***************************************************************************)
\* the step served a tool call that returned an error
ErrorStep == last'.op \in {"run", "confirm", "cancel", "generate_ssh_key"} /\ ~last'.ok

\* the step removed the token its confirm call names and nothing else
RemovesNamedTokenOnly ==
    /\ last'.op = "confirm"
    /\ last'.token \in DOMAIN pending
    /\ pending' = MapDelete(pending, last'.token)

\* a rejected run issues no token, appends no audit record and spawns nothing
RejectedRunHasNoEffect ==
    (last'.op = "run" /\ last'.err \in {"PathEscape"} \cup NotAllowedErrors \cup GuardErrors) =>
        /\ pending' = pending
        /\ nextToken' = nextToken
        /\ last'.newToken = NoToken
        /\ last'.audit = NoAudit
        /\ ~last'.spawn.called

\* C39: a tool call that returns an error leaves the confirmation store as it
\* was, except that confirm on an expired token and confirm on a stage-2
\* token whose spawn fails remove the named token; a rejected run issues no
\* token, appends no audit record and spawns nothing.
C39_ErrorLeavesStore ==
    [][ErrorStep =>
          /\ IF last'.err = "ConfirmationExpired" \/ (last'.err = "SpawnFailure" /\ last'.op = "confirm")
             THEN RemovesNamedTokenOnly
             ELSE pending' = pending
          /\ RejectedRunHasNoEffect]_vars

\* C39 for the errors other than a failed audit append
C39_ErrorLeavesStoreUnlessAppendFails ==
    [][(ErrorStep /\ last'.err # "AuditFailure") =>
          /\ IF last'.err = "ConfirmationExpired" \/ (last'.err = "SpawnFailure" /\ last'.op = "confirm")
             THEN RemovesNamedTokenOnly
             ELSE pending' = pending
          /\ RejectedRunHasNoEffect]_vars

(***************************************************************************)
(* The Policy the loader returns, over SpecPolicy.                         *)
(***************************************************************************)
\* createTerminalContext has returned
PolicyLoaded == boot.stage \in {"context", "serving"}

\* allowedCommands of the loaded Policy is a non-empty array
NonEmptyAllowedCommands ==
    /\ boot.ctx.policy.allowedCommands.kind = "array"
    /\ Len(boot.ctx.policy.allowedCommands.val) > 0

\* every entry of allowedCommands of the loaded Policy is a name that matches
\* [A-Za-z0-9._-]+
EveryNameSafe ==
    \A i \in 1..Len(boot.ctx.policy.allowedCommands.val) :
        LET name == boot.ctx.policy.allowedCommands.val[i]
        IN  name.kind = "string" /\ isSafeCommandName(name.val)

\* the policy file is unparseable, or its allowedCommands is absent or empty
InvalidPolicyFile ==
    \/ boot.file.parsed.kind = "error"
    \/ boot.file.parsed.kind # "object"
    \/ \A i \in 1..Len(boot.file.parsed.val) :
          boot.file.parsed.val[i][1] = PolicyKey.allowedCommands =>
              boot.file.parsed.val[i][2] \in {J("array", <<>>), J("null", <<>>)}

\* C37: every Policy the loader returns has a non-empty allowedCommands whose
\* names all match [A-Za-z0-9._-]+, and a policy file that is unparseable or
\* whose allowedCommands is absent or empty makes loading fail, so that no
\* tool is served.
C37_PolicyInvariant ==
    /\ PolicyLoaded => (NonEmptyAllowedCommands /\ EveryNameSafe)
    /\ InvalidPolicyFile => ~PolicyLoaded

\* C37 without the names: a loaded Policy has a non-empty array, and an
\* invalid file is never served
C37_NonEmptyOrLoadingFails ==
    /\ PolicyLoaded => NonEmptyAllowedCommands
    /\ InvalidPolicyFile => ~PolicyLoaded

(***************************************************************************)
(* The key type the wizard reads from a reply, over SpecAgent.             *)
(***************************************************************************)
\* the turn called generate_ssh_key with what parseSshWizardInput read from
\* the reply of the user
WizardReplied == turn.call.by = "wizard"

\* the reply is one of the defaults phrases, or a single token that is taken
\* for the file name
DefaultsOrBareWord(text) ==
    LET t     == Trim(text)
        lower == toLowerCase(t)
    IN  \/ lower \in {Word.useDefaults, Word.defaults, Word.default}
        \/ /\ Len(t) > 0
           /\ \A i \in 1..Len(t) : t[i] \in Lower \cup Upper \cup Digit \cup {".", "_", "-"}

\* the reply names the key type, in any case
Names(text, keyType) == Includes(toLowerCase(text), keyType)

\* the type property of the arguments of the call, <<>> when there is none
TypeArgs(args) == SelectSeq(args, LAMBDA a : a[1] = Key.type)

\* C38: for a wizard reply that is neither a defaults phrase nor a bare word,
\* the parsed type is rsa when the reply names rsa and not ed25519, ed25519
\* when it names ed25519, and absent when it names neither.
C38_WizardKeyType ==
    (WizardReplied /\ ~DefaultsOrBareWord(turn.userText)) =>
        TypeArgs(turn.call.args) =
            IF Names(turn.userText, typeEd25519) THEN <<  <<Key.type, Str(typeEd25519)>>  >>
            ELSE IF Names(turn.userText, typeRsa) THEN <<  <<Key.type, Str(typeRsa)>>  >>
            ELSE <<>>

(***************************************************************************)
(* The calls of the model in one pass of the loop, over SpecAgent.         *)
(***************************************************************************)
\* the latest step was a pass of the loop
PassMade == Len(turn.asked) > 0

\* C34: a pass of the loop calls the model at most twice; the second call is
\* made exactly when the first returned no action, and carries the nudge;
\* when the second fails too the turn ends with the parse-failure message,
\* and the pass dispatched no tool and pushed no message.
C34_ModelRetry ==
    PassMade =>
        /\ Len(turn.asked) <= 2
        /\ ~turn.asked[1].nudge
        /\ Len(turn.asked) = 2 <=> ~turn.asked[1].ok
        /\ Len(turn.asked) = 2 => turn.asked[2].nudge
        /\ ~turn.asked[Len(turn.asked)].ok <=> (turn.phase = "returned" /\ turn.reply = "parseFailure")
        /\ ~turn.asked[Len(turn.asked)].ok => (turn.call = NoCall /\ turn.pushed = <<>>)

\* both calls of the second pass of a turn failed, after a pass that
\* dispatched a tool
C34_Witness ==
    /\ turn.passes = 2
    /\ turn.toolCalls = 1
    /\ Len(turn.asked) = 2
    /\ ~turn.asked[2].ok
    /\ turn.reply = "parseFailure"

(***************************************************************************)
(* The end of a turn after a tool answered, over SpecAgent.                *)
(***************************************************************************)
\* the latest pass of the loop dispatched a tool, and the tool answered
Answered(t) == t.call.by = "model" /\ t.resp # NoResponse

\* the text handleUserMessage returned spells out the token: in its /confirm
\* line, or in the structuredContent the text of the tool ends with
ListsToken(returned, token) ==
    \/ returned.kind = "instructions" /\ returned.confirm = token
    \/ returned.kind = "toolText" /\ returned.text.structuredContent.token = token

\* the call is terminal-server.find_files, or terminal-server.run with the
\* command "date"
FindFilesOrDate(call) ==
    /\ call.server = Server.terminal
    /\ \/ call.tool = Tool.find_files
       \/ /\ call.tool = Tool.run
          /\ \E i \in DOMAIN call.args :
                 call.args[i][1] = Key.command /\ call.args[i][2] = Str(Word.date)

\* a turn that has returned makes no further pass: the next step of the
\* chatbot is a new line of the user
NoPassAfterReturn ==
    turn.phase = "returned" => (turn'.passes = 0 /\ turn'.modelCalls = 0 /\ turn'.call.by # "model")

C33_FastReturn ==
    /\ []((Answered(turn) /\ FindFilesOrDate(turn.call))
            => /\ turn.phase = "returned"
               /\ turn.returned = ToolText(turn.resp)
               /\ turn.pushed[Len(turn.pushed)] = Msg("tool", "result"))
    /\ []((Answered(turn) /\ turn.returned.kind = "toolText")
            => (FindFilesOrDate(turn.call) /\ turn.phase = "returned"))
    /\ [][NoPassAfterReturn]_vars

\* `date` answered with a request for confirmation, and the turn returned the
\* text of the tool
C33_Witness ==
    /\ Answered(turn)
    /\ turn.call.tool = Tool.run
    /\ FindFilesOrDate(turn.call)
    /\ extractConfirmation(turn.resp) # NoConfirmation
    /\ turn.returned.kind = "toolText"
    /\ turn.phase = "returned"

(***************************************************************************)
(* A model that repeats itself, over FairSpecAgent.                        *)
(***************************************************************************)
\* every pass of the turn so far emitted the tool action of the latest pass,
\* and the first pass dispatched it: a pass that does not return adds the
\* call key of its action to seenToolCalls or finds it there, so one key in
\* seenToolCalls means one action in all passes
SameActionInEveryPass ==
    /\ turn.passes >= 1
    /\ turn.action.type = "tool"
    /\ seenToolCalls = {ModelActionChecked[turn.action].key}
    /\ turn.toolCalls >= 1

\* the result of the first dispatch ended the turn
FirstResultEndedTurn == turn.passes = 1 /\ turn.phase = "returned" /\ turn.reply # "stepLimit"

\* C40: when every pass of a turn emits the same tool action and the first
\* result does not end the turn, the tool is dispatched once, every later
\* pass pushes the repeat message and calls nothing, every pass consumes one
\* step, and the turn returns the step-limit apology after exactly maxSteps
\* passes, which it reaches.
C40_RepeatsConsumeBudget ==
    /\ []((SameActionInEveryPass /\ ~FirstResultEndedTurn) =>
            /\ turn.toolCalls = 1
            /\ turn.passes = 1 => turn.call.by = "model"
            /\ turn.passes > 1 =>
                   (turn.call = NoCall /\ turn.pushed = <<Msg("assistant", "raw"), RepeatMsg>>)
            /\ turn.step = turn.passes
            /\ turn.phase = "returned" <=> turn.passes = maxSteps
            /\ turn.phase = "returned" => turn.reply = "stepLimit")
    /\ ((SameActionInEveryPass /\ turn.phase = "loop") ~> turn.phase = "returned")

\* `ls` was dispatched in the first pass and repeated in every later one, up
\* to the step limit
C40_Witness ==
    /\ SameActionInEveryPass
    /\ turn.call = NoCall
    /\ turn.passes = maxSteps
    /\ turn.toolCalls = 1
    /\ turn.reply = "stepLimit"

(***************************************************************************)
(* The conversation history, over SpecTurns.                               *)
(***************************************************************************)
\* the positions of the history with a message of call id
MessagesOf(id) == {k \in DOMAIN history : history[k].turn = id}

\* the positions with the result of a tool the model asked for
Results == {k \in DOMAIN history : history[k].role = "tool" /\ history[k].kind = "result"}

\* the step leaves the earlier history as a prefix of the new one
Appended ==
    /\ Len(history) <= Len(history')
    /\ SubSeq(history', 1, Len(history)) = history

\* the first message of every call begun is the message of the user, its only one
UserMessageFirst ==
    \A i \in DOMAIN turns :
        /\ MessagesOf(i) # {}
        /\ \A k \in MessagesOf(i) :
               history[k].role = "user" <=> (\A j \in MessagesOf(i) : k <= j)

\* every result comes after the assistant message of its call and pass, and
\* the results of one call are in the order of its passes
ResultsInDispatchOrder ==
    \A k \in Results :
        /\ \E j \in 1..(k - 1) :
               /\ history[j].role = "assistant"
               /\ history[j].turn = history[k].turn
               /\ history[j].step = history[k].step
        /\ \A j \in Results :
               (j < k /\ history[j].turn = history[k].turn) => history[j].step < history[k].step

\* the result of the call the wizard branch or the defaults gate makes, which
\* no assistant message asked for, is the one message of its turn after the
\* message of the user
GateResultAfterUser ==
    \A k \in DOMAIN history :
        history[k].kind = "gateResult" =>
            /\ Cardinality(MessagesOf(history[k].turn)) = 2
            /\ \A j \in MessagesOf(history[k].turn) : j <= k

\* C35: the history is append-only, every step of handleUserMessage leaving
\* the earlier history as a prefix; each turn first appends the message of
\* the user; the results of the tools of a turn are in the order of their
\* dispatch, each after the assistant message that asked for it.
C35_HistoryAppendOnly ==
    /\ [][Appended]_vars
    /\ [](UserMessageFirst /\ ResultsInDispatchOrder /\ GateResultAfterUser)

\* a turn with two results in the history, a message of the other turn
\* between them
C35_Witness ==
    \E j, k \in Results :
        /\ j < k
        /\ history[j].turn = history[k].turn
        /\ \E m \in (j + 1)..(k - 1) : history[m].turn # history[k].turn

(***************************************************************************)
(* One turn at a time, over SpecTurns.                                     *)
(***************************************************************************)
\* the calls of handleUserMessage that have not returned
Suspended == {i \in DOMAIN turns : turns[i].pc # "returned"}

\* the messages of each turn are next to one another in the history
ContiguousBlocks ==
    \A a, c \in DOMAIN history :
        (a < c /\ history[a].turn = history[c].turn)
            => \A b \in a..c : history[b].turn = history[a].turn

\* C36: the turns of a session do not interleave: no line starts
\* handleUserMessage while an earlier call is suspended on the model or on
\* a tool, and the messages of one turn form one block of the history.
C36_TurnsDoNotInterleave ==
    /\ Cardinality(Suspended) <= 1
    /\ ContiguousBlocks

\* C36, the part that holds: a call runs alone between two of its awaits, so
\* the messages one step pushes are next to one another and of one call
C36_OneCallPerStep ==
    [][\A k \in (Len(history) + 1)..Len(history') :
           history'[k].turn = history'[Len(history')].turn]_vars

====
